---- MODULE Spec2Model ----
(***************************************************************************)
(* Token scheduler of the AtomBPMN engine: callback validation and resume  *)
(* (CallbackHelper), the call-activity executor, and the collaborators the *)
(* callbacks come from (jobs, timers, child instances).                    *)
(***************************************************************************)
EXTENDS Integers, Sequences, FiniteSets, TLC

(* ------------------------------ bounds --------------------------------- *)

\* Callback deliveries the collaborators make in a run (first + redeliveries).
MaxDeliveries == 2

\* Storage/component operations that may fail in a run.
MaxFaults == 1

\* Times a token may arrive at a call activity (caps the back-edge loop).
MaxArrivals == 2

\* Goroutines that deliver callbacks to the process component.
Handlers == {"h1", "h2"}

(* --------------------------- process graphs ---------------------------- *)

\* Parsed BPMN elements: bpmnProcess.Elements, keyed by element id.  "called" is
\* the process_id found in extension_elements ("" when there is none).
Elements ==
  [ L_Start |-> [process |-> "Linear", type |-> "startEvent", hasOutgoing |-> TRUE,
                 incoming |-> <<>>, outgoing |-> <<"lf1">>, called |-> ""],
    L_Call  |-> [process |-> "Linear", type |-> "callActivity", hasOutgoing |-> TRUE,
                 incoming |-> <<"lf1">>, outgoing |-> <<"lf2">>, called |-> "Child"],
    L_End   |-> [process |-> "Linear", type |-> "endEvent", hasOutgoing |-> FALSE,
                 incoming |-> <<"lf2">>, outgoing |-> <<>>, called |-> ""],
    P_Start |-> [process |-> "Loop", type |-> "startEvent", hasOutgoing |-> TRUE,
                 incoming |-> <<>>, outgoing |-> <<"pf1">>, called |-> ""],
    P_Call  |-> [process |-> "Loop", type |-> "callActivity", hasOutgoing |-> TRUE,
                 incoming |-> <<"pf1", "pf3">>, outgoing |-> <<"pf2">>, called |-> "Child"],
    P_Gw    |-> [process |-> "Loop", type |-> "exclusiveGateway", hasOutgoing |-> TRUE,
                 incoming |-> <<"pf2">>, outgoing |-> <<"pf3", "pf4">>, called |-> ""],
    P_End   |-> [process |-> "Loop", type |-> "endEvent", hasOutgoing |-> FALSE,
                 incoming |-> <<"pf4">>, outgoing |-> <<>>, called |-> ""],
    C_Start |-> [process |-> "Child", type |-> "startEvent", hasOutgoing |-> TRUE,
                 incoming |-> <<>>, outgoing |-> <<"cf1">>, called |-> ""],
    C_End   |-> [process |-> "Child", type |-> "endEvent", hasOutgoing |-> FALSE,
                 incoming |-> <<"cf1">>, outgoing |-> <<>>, called |-> ""],
    O_Start |-> [process |-> "Order", type |-> "startEvent", hasOutgoing |-> TRUE,
                 incoming |-> <<>>, outgoing |-> <<"of1">>, called |-> ""],
    O_Task  |-> [process |-> "Order", type |-> "serviceTask", hasOutgoing |-> TRUE,
                 incoming |-> <<"of1">>, outgoing |-> <<"of2">>, called |-> ""],
    O_Gw    |-> [process |-> "Order", type |-> "eventBasedGateway", hasOutgoing |-> TRUE,
                 incoming |-> <<"of2">>, outgoing |-> <<"ofa", "ofb">>, called |-> ""],
    O_EndA  |-> [process |-> "Order", type |-> "endEvent", hasOutgoing |-> FALSE,
                 incoming |-> <<"ofa">>, outgoing |-> <<>>, called |-> ""],
    O_EndB  |-> [process |-> "Order", type |-> "endEvent", hasOutgoing |-> FALSE,
                 incoming |-> <<"ofb">>, outgoing |-> <<>>, called |-> ""],
    F_Start |-> [process |-> "Fork", type |-> "startEvent", hasOutgoing |-> TRUE,
                 incoming |-> <<>>, outgoing |-> <<"ff0">>, called |-> ""],
    F_Split |-> [process |-> "Fork", type |-> "parallelGateway", hasOutgoing |-> TRUE,
                 incoming |-> <<"ff0">>, outgoing |-> <<"ff1", "ff2", "ff3">>, called |-> ""],
    F_Join  |-> [process |-> "Fork", type |-> "parallelGateway", hasOutgoing |-> TRUE,
                 incoming |-> <<"ff1", "ff2">>, outgoing |-> <<"ff4">>, called |-> ""],
    F_EndA  |-> [process |-> "Fork", type |-> "endEvent", hasOutgoing |-> FALSE,
                 incoming |-> <<"ff4">>, outgoing |-> <<>>, called |-> ""],
    F_Call  |-> [process |-> "Fork", type |-> "callActivity", hasOutgoing |-> TRUE,
                 incoming |-> <<"ff3">>, outgoing |-> <<"ff5">>, called |-> "Child"],
    F_EndB  |-> [process |-> "Fork", type |-> "endEvent", hasOutgoing |-> FALSE,
                 incoming |-> <<"ff5">>, outgoing |-> <<>>, called |-> ""],
    B_Start |-> [process |-> "Broken", type |-> "startEvent", hasOutgoing |-> TRUE,
                 incoming |-> <<>>, outgoing |-> <<"bf1">>, called |-> ""],
    B_Call  |-> [process |-> "Broken", type |-> "callActivity", hasOutgoing |-> TRUE,
                 incoming |-> <<"bf1">>, outgoing |-> <<"bf2">>, called |-> ""],
    B_End   |-> [process |-> "Broken", type |-> "endEvent", hasOutgoing |-> FALSE,
                 incoming |-> <<"bf2">>, outgoing |-> <<>>, called |-> ""] ]

ElementIds == DOMAIN Elements

\* The empty element id / flow id / process key ("" in the code).
NoElement == ""

\* Process keys a caller may start directly.
StartKeys == {"Linear", "Loop", "Order"}

StartElement(processKey) ==
  CHOOSE e \in ElementIds : Elements[e].process = processKey /\ Elements[e].type = "startEvent"

SeqToSet(s) == {s[i] : i \in DOMAIN s}

(* ------------------------------ variables ------------------------------ *)

EmptyVars == [k \in {} |-> 0]

\* Variables a caller starts an instance with.
StartVars == {[x |-> 1, z |-> 1]}

\* Variables a collaborator's callback carries: nil, or a map.
CallbackVars ==
  {[nil |-> TRUE, map |-> EmptyVars], [nil |-> FALSE, map |-> [x |-> 2, y |-> 2]]}

\* Token.MergeVariables: the given variables override the token's, key by key.
MergeVariables(old, new) ==
  [k \in (DOMAIN old) \cup (DOMAIN new) |-> IF k \in DOMAIN new THEN new[k] ELSE old[k]]

(* ------------------------------ wait keys ------------------------------ *)

\* A waitingFor key "<kind>:<id>"; NoKey is the empty string.
Key(kind, id) == [kind |-> kind, id |-> id]
NoKey == Key("", 0)

\* fmt.Sprintf("call_activity:%s", childInstance.InstanceID)
CallActivityWaitingFor(childInstanceId) == Key("call_activity", childInstanceId)

\* fmt.Sprintf("call_activity_executed:%s", token.CurrentElementID)
CallActivityKey(elementId) == [flag |-> "call_activity_executed", el |-> elementId]

(* -------------------------------- state -------------------------------- *)

VARIABLES
  instances,   \* storage: process instances, by instance id (1..Len)
  tokens,      \* storage: persisted tokens, by token id (1..Len)
  timers,      \* timewheel: timer records, by timer id
  jobs,        \* jobs component: job records, by job key
  issued,      \* callbacks the collaborators have produced (may be redelivered)
  handlers,    \* the callback-handling goroutines: position and local token
  lock,        \* per-instance lock: the handler holding it, or "free"
  stats,       \* per token: call activity arrivals, children started, departures; suspensions
  deliveries,  \* callback deliveries made so far
  waits,       \* per suspension of a token: validations passed, resumes written
  faults,      \* failures that have happened
  channel,     \* jobs component: its response channel, oldest message first
  forwarded,   \* calls of HandleJobCallback made by the jobs processor
  ignored,     \* responses the jobs processor has logged as ignored
  caller,      \* a REST caller in sendJobsRequest: position and response
  responses,   \* messages the jobs dispatcher has put on the channel so far
  replies,     \* what the API adapters have returned to their callers, in order
  firings,     \* the parallel joins that have fired: tokens consumed, survivor
  buffer,      \* message correlator: published messages, by message id
  subscriptions, \* message correlator: subscriptions, by subscription id
  now,         \* message correlator: the time
  rlmConfig,   \* rate-limit middleware: its configuration
  recorded,    \* rate limiter: the requests recorded, per client
  served,      \* the HTTP requests that went through the middleware, in order
  tested,      \* expression service: the last TestExpression request and response
  http,        \* REST jobs handler: the HTTP exchanges, by request id (1..Len)
  inbox,       \* jobs component: the messages sent to it, oldest first
  store,       \* jobs component: the jobs created over REST, by job key (1..Len)
  outbox       \* jobs component: its responses to API requests, oldest first

\* The jobs response channel and its readers.
jobsVars == <<channel, forwarded, ignored, caller, responses>>

\* The message correlator.
messageVars == <<buffer, subscriptions, now>>

\* The rate-limit middleware and its rate limiter.
middlewareVars == <<rlmConfig, recorded, served>>

\* The transport edge of the engine: HTTP middleware and handlers.
\* The REST jobs handler and the jobs component behind it.
restVars == <<http, inbox, store, outbox>>

edgeVars == <<middlewareVars, tested, restVars>>

\* What surrounds the callback handling: the core server's channel and adapters,
\* the parallel joins, the message correlator and the transport edge.
coreVars == <<jobsVars, replies, firings, messageVars, edgeVars>>

\* The engine: storage, timewheel, jobs and the callback handlers.
engineVars == <<instances, tokens, timers, jobs, issued, handlers, lock, stats,
                deliveries, waits, faults>>

vars == <<engineVars, coreVars>>

TokenIds == DOMAIN tokens

NoToken ==
  [inst |-> 0, processKey |-> NoElement, cur |-> NoElement, state |-> "NONE",
   waitingFor |-> NoKey, vars |-> EmptyVars, ctx |-> {}]

NoCallback ==
  [tok |-> 0, inst |-> 0, key |-> NoKey, elementId |-> NoElement,
   vars |-> [nil |-> TRUE, map |-> EmptyVars], flows |-> <<>>, via |-> "continue"]

IdleHandler ==
  [pc |-> "idle", cb |-> NoCallback, loaded |-> NoToken, outcome |-> "none",
   rejected |-> FALSE, placed |-> {}, log |-> <<>>]

\* Clients of the HTTP API, as getClientIdentifier names them: by API key or by
\* IP address.
ClientIds == {"api:key-1", "ip:10.0.0.1"}

\* DefaultRateLimitConfig: enabled, with the auth component's rate limiter.
DefaultRateLimitConfig == [Enabled |-> TRUE, UseAuthRateLimiter |-> TRUE]

\* A REST caller that has sent no request.
IdleCaller == [pc |-> "idle", got |-> <<>>]

Init ==
  /\ instances = <<>>
  /\ tokens = <<>>
  /\ timers = <<>>
  /\ jobs = <<>>
  /\ issued = {}
  /\ handlers = [h \in Handlers |-> IdleHandler]
  /\ lock = <<>>
  /\ stats = <<>>
  /\ deliveries = 0
  /\ waits = {}
  /\ faults = 0
  /\ channel = <<>>
  /\ forwarded = <<>>
  /\ ignored = <<>>
  /\ caller = IdleCaller
  /\ responses = 0
  /\ replies = <<>>
  /\ firings = <<>>
  /\ buffer = <<>>
  /\ subscriptions = <<>>
  /\ now = 0
  /\ rlmConfig = DefaultRateLimitConfig
  /\ recorded = [c \in ClientIds |-> 0]
  /\ served = <<>>
  /\ tested = <<>>
  /\ http = <<>>
  /\ inbox = <<>>
  /\ store = <<>>
  /\ outbox = <<>>

\* Whether the next fallible operation fails: only while failures remain.
FaultChoices == IF faults < MaxFaults THEN {FALSE, TRUE} ELSE {FALSE}

(* --------------------------- instance manager --------------------------- *)

NewInstance(processKey, variables, parentTok) ==
  [processKey |-> processKey, state |-> "ACTIVE", vars |-> variables, parentTok |-> parentTok]

NewToken(inst, processKey, variables) ==
  [inst |-> inst, processKey |-> processKey, cur |-> StartElement(processKey),
   state |-> "ACTIVE", waitingFor |-> NoKey, vars |-> variables, ctx |-> {}]

NoStats == [arrivals |-> 0, started |-> 0, left |-> 0, suspended |-> 0]

\* A caller starts an instance: instance record plus one token at the start event.
\* A run follows one instance a caller starts and the child instances it calls;
\* instances of different callers share nothing but the store.
StartProcessInstance(processKey, variables) ==
  /\ instances = <<>>
  /\ instances' = Append(instances, NewInstance(processKey, variables, 0))
  /\ lock' = Append(lock, "free")
  /\ tokens' = Append(tokens, NewToken(Len(instances) + 1, processKey, variables))
  /\ stats' = Append(stats, NoStats)
  /\ UNCHANGED <<timers, jobs, issued, handlers, deliveries, waits, faults, coreVars>>

(* ------------------------------ token model ---------------------------- *)

\* Token.IsWaiting
IsWaiting(token) == token.state = "WAITING"

\* Token.SetWaitingFor: the key and the WAITING state are set together.
SetWaitingFor(token, waitingFor) ==
  [token EXCEPT !.waitingFor = waitingFor, !.state = "WAITING"]

\* Token.ClearWaitingFor: the key is emptied and the token is ACTIVE again.
ClearWaitingFor(token) == [token EXCEPT !.waitingFor = NoKey, !.state = "ACTIVE"]

\* Token.MoveTo
MoveTo(token, elementId) == [token EXCEPT !.cur = elementId]

\* Token.GetExecutionContext(key): exists && executed == true
GetExecutionContext(token, key) == key \in token.ctx

\* Token.SetExecutionContext(key, true)
SetExecutionContext(token, key) == [token EXCEPT !.ctx = @ \cup {key}]

(* --------------------------- flow resolution --------------------------- *)

\* CallbackHelper.findTargetElementByFlowID: the element of the process whose
\* "incoming" holds the flow id, "" when there is none.
findTargetElementByFlowID(flowID, processKey) ==
  LET hits == {e \in ElementIds : /\ Elements[e].process = processKey
                                  /\ flowID \in SeqToSet(Elements[e].incoming)}
  IN IF hits = {} THEN NoElement ELSE CHOOSE e \in hits : TRUE

\* The loop over flowIDs that collects the non-empty targets, in order.
RECURSIVE TargetElements(_, _)
TargetElements(flowIDs, processKey) ==
  IF flowIDs = <<>> THEN <<>>
  ELSE LET t == findTargetElementByFlowID(Head(flowIDs), processKey)
           rest == TargetElements(Tail(flowIDs), processKey)
       IN IF t # NoElement THEN <<t>> \o rest ELSE rest

(* ------------------------- call activity executor ---------------------- *)

Result(success, updated, next, completed, waitingFor, error) ==
  [Success |-> success, TokenUpdated |-> updated, NextElements |-> next,
   Completed |-> completed, WaitingFor |-> waitingFor, Error |-> error]

\* Variant: a call activity that names no process calls Child.
extractCalledProcessID_Default(element) ==
  [err |-> FALSE, processId |-> IF element.called = "" THEN "Child" ELSE element.called]

\* CallActivityExecutor.extractCalledProcessID
extractCalledProcessID(element) ==
  IF element.called = "" THEN [err |-> TRUE, processId |-> ""]
  ELSE [err |-> FALSE, processId |-> element.called]

\* Variant: the flag is taken to be set whatever the context holds.
AlreadyExecuted_Always(token) == TRUE

\* "Check if call activity was already executed for this token"
AlreadyExecuted(token) == GetExecutionContext(token, CallActivityKey(token.cur))

\* Variant: the resumed call activity completes the token instead of advancing.
CallActivityResume_Completes(token, element) ==
  [token |-> token, startChild |-> FALSE, childProcess |-> "",
   result |-> Result(TRUE, TRUE, <<>>, TRUE, NoKey, "")]

\* Execute, flag set: continue along the outgoing flows, start nothing.
CallActivityResume(token, element) ==
  IF ~element.hasOutgoing
  THEN [token |-> token, startChild |-> FALSE, childProcess |-> "",
        result |-> Result(TRUE, TRUE, <<>>, TRUE, NoKey, "")]
  ELSE [token |-> token, startChild |-> FALSE, childProcess |-> "",
        result |-> Result(TRUE, FALSE, element.outgoing, FALSE, NoKey, "")]

\* Variant: the child is started but the executed flag is not recorded.
CallActivityFirstEntry_NoFlag(token, element, start) ==
  LET called == extractCalledProcessID(element) IN
  IF called.err
  THEN [token |-> token, startChild |-> FALSE, childProcess |-> "",
        result |-> Result(FALSE, FALSE, <<>>, FALSE, NoKey, "extract")]
  ELSE IF start.err
  THEN [token |-> token, startChild |-> FALSE, childProcess |-> called.processId,
        result |-> Result(FALSE, FALSE, <<>>, FALSE, NoKey, "start")]
  ELSE [token |-> token, startChild |-> TRUE, childProcess |-> called.processId,
        result |-> Result(TRUE, TRUE, <<>>, FALSE,
                          CallActivityWaitingFor(start.instanceId), "")]

\* Execute, flag not set: extract the called process, start the child, set the
\* flag, suspend on the child.  start = outcome of component.StartProcessInstance.
CallActivityFirstEntry(token, element, start) ==
  LET called == extractCalledProcessID(element) IN
  IF called.err
  THEN [token |-> token, startChild |-> FALSE, childProcess |-> "",
        result |-> Result(FALSE, FALSE, <<>>, FALSE, NoKey, "extract")]
  ELSE IF start.err
  THEN [token |-> token, startChild |-> FALSE, childProcess |-> called.processId,
        result |-> Result(FALSE, FALSE, <<>>, FALSE, NoKey, "start")]
  ELSE [token |-> SetExecutionContext(token, CallActivityKey(token.cur)),
        startChild |-> TRUE, childProcess |-> called.processId,
        result |-> Result(TRUE, TRUE, <<>>, FALSE,
                          CallActivityWaitingFor(start.instanceId), "")]

\* CallActivityExecutor.Execute
CallActivityExecute(token, element, start) ==
  IF AlreadyExecuted(token) THEN CallActivityResume(token, element)
  ELSE CallActivityFirstEntry(token, element, start)

(* ------------------------------ step loop ------------------------------ *)

Runnable(t, type) ==
  /\ t \in TokenIds
  /\ tokens[t].state = "ACTIVE"
  /\ lock[tokens[t].inst] = "free"
  /\ Elements[tokens[t].cur].type = type

IsCallActivity(e) == e \in ElementIds /\ Elements[e].type = "callActivity"

MoveStats(st, from, to) ==
  [st EXCEPT !.left = @ + (IF IsCallActivity(from) THEN 1 ELSE 0),
             !.arrivals = @ + (IF IsCallActivity(to) THEN 1 ELSE 0)]

\* Advance: the token moves to the target of the flow and stays runnable.
Advance(t, token, flowID) ==
  LET target == findTargetElementByFlowID(flowID, token.processKey) IN
  /\ tokens' = [tokens EXCEPT ![t] = MoveTo(token, target)]
  /\ stats' = [stats EXCEPT ![t] = MoveStats(@, token.cur, target)]

\* Start event: advance along the outgoing flow.
StepStartEvent(t) ==
  /\ Runnable(t, "startEvent")
  /\ Advance(t, tokens[t], Elements[tokens[t].cur].outgoing[1])
  /\ UNCHANGED <<instances, timers, jobs, issued, handlers, lock, deliveries, waits, faults, coreVars>>

\* Exclusive gateway: one outgoing flow is taken (the conditions are inputs).
StepExclusiveGateway(t, flowID) ==
  /\ Runnable(t, "exclusiveGateway")
  /\ flowID \in SeqToSet(Elements[tokens[t].cur].outgoing)
  /\ IsCallActivity(findTargetElementByFlowID(flowID, tokens[t].processKey))
       => stats[t].arrivals < MaxArrivals
  /\ Advance(t, tokens[t], flowID)
  /\ UNCHANGED <<instances, timers, jobs, issued, handlers, lock, deliveries, waits, faults, coreVars>>

\* Variant: the complete check looks at ACTIVE tokens only.
NoLiveToken_ActiveOnly(toks, inst) ==
  \A u \in DOMAIN toks : toks[u].inst = inst => toks[u].state # "ACTIVE"

\* Complete check: no token of the instance is ACTIVE or WAITING.
NoLiveToken(toks, inst) ==
  \A u \in DOMAIN toks : toks[u].inst = inst => toks[u].state \notin {"ACTIVE", "WAITING"}

\* The callback a completed child instance delivers to its parent's token.
ChildCallback(inst, parentTok, variables) ==
  [tok |-> parentTok, inst |-> tokens[parentTok].inst,
   key |-> CallActivityWaitingFor(inst), elementId |-> tokens[parentTok].cur,
   vars |-> [nil |-> FALSE, map |-> variables], flows |-> <<>>, via |-> "continue"]

\* Token t of instance inst has just become COMPLETED in toks: the instance
\* completes when no token is left, and a child instance then calls back its parent.
CompleteCheck(t, toks, insts) ==
  LET inst == tokens[t].inst
      done == NoLiveToken(toks, inst)
      merged == MergeVariables(instances[inst].vars, toks[t].vars)
  IN [instances |-> IF done THEN [insts EXCEPT ![inst].state = "COMPLETED", ![inst].vars = merged]
                    ELSE insts,
      issued |-> IF done /\ instances[inst].parentTok # 0
                 THEN issued \cup {ChildCallback(inst, instances[inst].parentTok, merged)}
                 ELSE issued]

\* End event: the token completes, then the complete check runs.
StepEndEvent(t) ==
  LET toks == [tokens EXCEPT ![t].state = "COMPLETED"]
      after == CompleteCheck(t, toks, instances)
  IN
  /\ Runnable(t, "endEvent")
  /\ tokens' = toks
  /\ instances' = after.instances
  /\ issued' = after.issued
  /\ UNCHANGED <<timers, jobs, handlers, lock, stats, deliveries, waits, faults, coreVars>>

\* The step loop applies an executor's result to the token the executor returned.
ApplyResult(persisted, token, r) ==
  IF ~r.Success THEN persisted
  ELSE IF r.WaitingFor # NoKey THEN SetWaitingFor(token, r.WaitingFor)
  ELSE IF r.Completed THEN [token EXCEPT !.state = "COMPLETED"]
  ELSE IF r.NextElements # <<>>
  THEN MoveTo(token, findTargetElementByFlowID(r.NextElements[1], token.processKey))
  ELSE token

\* Call activity: CallActivityExecutor.Execute, then the step loop applies the result.
StepCallActivity(t, fail) ==
  LET token == tokens[t]
      newId == Len(instances) + 1
      out == CallActivityExecute(token, Elements[token.cur], [err |-> fail, instanceId |-> newId])
      r == out.result
      applied == ApplyResult(token, out.token, r)
      toks == [tokens EXCEPT ![t] = applied]
      insts == IF out.startChild
               THEN Append(instances, NewInstance(out.childProcess, token.vars, t))
               ELSE instances
      after == IF applied.state = "COMPLETED" THEN CompleteCheck(t, toks, insts)
               ELSE [instances |-> insts, issued |-> issued]
  IN
  /\ Runnable(t, "callActivity")
  /\ fail \in FaultChoices
  /\ fail => ~AlreadyExecuted(token)
  /\ faults' = IF fail THEN faults + 1 ELSE faults
  /\ tokens' = IF out.startChild
               THEN Append(toks, NewToken(newId, out.childProcess, token.vars))
               ELSE toks
  /\ instances' = after.instances
  /\ issued' = after.issued
  /\ stats' = LET mv == IF applied.cur # token.cur
                          THEN MoveStats(stats[t], token.cur, applied.cur) ELSE stats[t]
                  st == [stats EXCEPT ![t] =
                           [mv EXCEPT !.started = @ + (IF out.startChild THEN 1 ELSE 0),
                                      !.suspended = @ + (IF IsWaiting(applied) THEN 1 ELSE 0)]]
              IN IF out.startChild THEN Append(st, NoStats) ELSE st
  /\ lock' = IF out.startChild THEN Append(lock, "free") ELSE lock
  /\ UNCHANGED <<timers, jobs, handlers, deliveries, waits, coreVars>>

(* --------------------- service task and event gateway ------------------ *)

NewTimer(t, kind, flowID) ==
  [tok |-> t, inst |-> tokens[t].inst, el |-> tokens[t].cur, kind |-> kind,
   flow |-> flowID, status |-> "PENDING"]

\* Service task without connector: a job is created, the boundary timer of the
\* task is armed, and the token suspends on job:<jobKey>.
StepServiceTask(t) ==
  LET jobKey == Len(jobs) + 1 IN
  /\ Runnable(t, "serviceTask")
  /\ jobs' = Append(jobs, [tok |-> t, inst |-> tokens[t].inst, el |-> tokens[t].cur,
                           state |-> "ACTIVATABLE"])
  /\ timers' = Append(timers, NewTimer(t, "BOUNDARY", NoElement))
  /\ tokens' = [tokens EXCEPT ![t] = SetWaitingFor(@, Key("job", jobKey))]
  /\ stats' = [stats EXCEPT ![t].suspended = @ + 1]
  /\ UNCHANGED <<instances, issued, handlers, lock, deliveries, waits, faults, coreVars>>

\* The key a token parked at an event-based gateway waits for.
EventGatewayWaitingFor(t) == Key("event_gateway", t)

\* Event-based gateway: one EVENT timer per outgoing catch event is armed and
\* the token suspends until the first of them fires.
StepEventGateway(t) ==
  LET out == Elements[tokens[t].cur].outgoing IN
  /\ Runnable(t, "eventBasedGateway")
  /\ timers' = timers \o [i \in DOMAIN out |-> NewTimer(t, "EVENT", out[i])]
  /\ tokens' = [tokens EXCEPT ![t] = SetWaitingFor(@, EventGatewayWaitingFor(t))]
  /\ stats' = [stats EXCEPT ![t].suspended = @ + 1]
  /\ UNCHANGED <<instances, jobs, issued, handlers, lock, deliveries, waits, faults, coreVars>>

(* --------------------------- parallel gateway -------------------------- *)

\* A parallel gateway with several incoming flows is a join, otherwise a split.
IsJoin(e) == Elements[e].type = "parallelGateway" /\ Len(Elements[e].incoming) > 1

\* Parallel split: the token moves along the first outgoing flow, and for each
\* further flow a sibling token of the same instance with a copy of the
\* variables is created at the flow's target.
StepParallelSplit(t) ==
  LET token == tokens[t]
      out == Elements[token.cur].outgoing
      target(i) == findTargetElementByFlowID(out[i], token.processKey)
  IN
  /\ Runnable(t, "parallelGateway")
  /\ ~IsJoin(token.cur)
  /\ tokens' = [tokens EXCEPT ![t] = MoveTo(token, target(1))]
                 \o [i \in 1..(Len(out) - 1) |-> MoveTo(token, target(i + 1))]
  /\ stats' = [stats EXCEPT ![t] = MoveStats(@, token.cur, target(1))]
                \o [i \in 1..(Len(out) - 1) |-> MoveStats(NoStats, token.cur, target(i + 1))]
  /\ UNCHANGED <<instances, timers, jobs, issued, handlers, lock, deliveries, waits, faults, coreVars>>

\* The key of a token parked at a parallel join.
JoinWaitingFor(inst) == Key("parallel_join", inst)

\* The sibling tokens parked at the join element of the instance.
ParkedAt(join, inst) ==
  {u \in DOMAIN tokens :
     tokens[u].inst = inst /\ tokens[u].cur = join /\ tokens[u].state = "WAITING"}

\* Variant: the join fires one token early.
JoinFires_OneShort(count, incoming) == count >= Len(incoming) - 1

\* The join fires when the parked tokens are as many as its incoming flows.
JoinFires(count, incoming) == count = Len(incoming)

\* The variables of the tokens, merged in the order of the token ids.
RECURSIVE MergedVariables(_, _)
MergedVariables(toks, base) ==
  IF toks = {} THEN base
  ELSE LET u == CHOOSE x \in toks : \A y \in toks : x <= y
       IN MergedVariables(toks \ {u}, MergeVariables(base, tokens[u].vars))

\* Parallel join: the arriving token is parked; when the parked siblings are as
\* many as the incoming flows they are merged into one survivor, which moves
\* along the outgoing flow, and the other siblings become CANCELLED.
StepParallelJoin(t) ==
  LET token == tokens[t]
      join == token.cur
      parked == ParkedAt(join, token.inst) \cup {t}
      target == findTargetElementByFlowID(Elements[join].outgoing[1], token.processKey)
      survivor == [MoveTo(token, target) EXCEPT !.vars = MergedVariables(parked, EmptyVars)]
  IN
  /\ Runnable(t, "parallelGateway")
  /\ IsJoin(join)
  /\ IF JoinFires(Cardinality(parked), Elements[join].incoming)
     THEN /\ tokens' = [u \in DOMAIN tokens |->
                          IF u = t THEN survivor
                          ELSE IF u \in parked
                          THEN [tokens[u] EXCEPT !.state = "CANCELLED", !.waitingFor = NoKey]
                          ELSE tokens[u]]
          /\ firings' = Append(firings, [join |-> join, inst |-> token.inst,
                                         consumed |-> parked, survivor |-> t])
          /\ stats' = [stats EXCEPT ![t] = MoveStats(@, join, target)]
     ELSE /\ tokens' = [tokens EXCEPT ![t] = SetWaitingFor(@, JoinWaitingFor(token.inst))]
          /\ stats' = [stats EXCEPT ![t].suspended = @ + 1]
          /\ UNCHANGED firings
  /\ UNCHANGED <<instances, timers, jobs, issued, handlers, lock, deliveries, waits, faults,
                 jobsVars, replies, messageVars, edgeVars>>

(* ----------------------------- collaborators --------------------------- *)

\* A worker completes a job: the jobs component produces the job callback.
CompleteJob(j, v) ==
  /\ j \in DOMAIN jobs
  /\ jobs[j].state = "ACTIVATABLE"
  /\ jobs' = [jobs EXCEPT ![j].state = "COMPLETED"]
  /\ issued' = issued \cup
       {[tok |-> jobs[j].tok, inst |-> jobs[j].inst, key |-> Key("job", j),
         elementId |-> jobs[j].el, vars |-> v, flows |-> <<>>, via |-> "continue"]}
  /\ UNCHANGED <<instances, tokens, timers, handlers, lock, stats, deliveries, waits, faults, coreVars>>

\* Flow-id lists a fired gateway event resumes its token with.
FlowInputs(flowID) == {<<flowID>>, <<"nf", "ofa", "ofb">>}

\* The timewheel fires a pending timer: a timer callback is produced.  A boundary
\* timer expects timer:<id>; a gateway event resumes the gateway's token by flows.
FireTimer(i, flows) ==
  /\ i \in DOMAIN timers
  /\ timers[i].status = "PENDING"
  /\ timers' = [timers EXCEPT ![i].status = "FIRED"]
  /\ IF timers[i].kind = "EVENT"
     THEN /\ flows \in FlowInputs(timers[i].flow)
          /\ issued' = issued \cup
               {[tok |-> timers[i].tok, inst |-> timers[i].inst,
                 key |-> EventGatewayWaitingFor(timers[i].tok), elementId |-> timers[i].el,
                 vars |-> [nil |-> TRUE, map |-> EmptyVars], flows |-> flows, via |-> "flows"]}
     ELSE /\ flows = <<>>
          /\ issued' = issued \cup
               {[tok |-> timers[i].tok, inst |-> timers[i].inst, key |-> Key("timer", i),
                 elementId |-> timers[i].el, vars |-> [nil |-> TRUE, map |-> EmptyVars],
                 flows |-> <<>>, via |-> "continue"]}
  /\ UNCHANGED <<instances, tokens, jobs, handlers, lock, stats, deliveries, waits, faults, coreVars>>

(* --------------------------- callback handling ------------------------- *)

\* A collaborator delivers one of its callbacks (again, if it likes) to a handler.
Deliver(h, cb) ==
  /\ handlers[h].pc = "idle"
  /\ cb \in issued
  /\ deliveries < MaxDeliveries
  /\ deliveries' = deliveries + 1
  /\ handlers' = [handlers EXCEPT ![h] = [IdleHandler EXCEPT !.pc = "wait", !.cb = cb]]
  /\ UNCHANGED <<instances, tokens, timers, jobs, issued, lock, stats, waits, faults, coreVars>>

\* Bookkeeping of the waits: for the n-th suspension of a token, how often a
\* callback passed validation and how often a resume was written to the store.
WaitCount(tok, n) ==
  IF \E r \in waits : r.tok = tok /\ r.wait = n
  THEN CHOOSE r \in waits : r.tok = tok /\ r.wait = n
  ELSE [tok |-> tok, wait |-> n, accepted |-> 0, resumed |-> 0]

Counted(tok, n, accepted, resumed) ==
  LET old == WaitCount(tok, n) IN
  (waits \ {old}) \cup {[old EXCEPT !.accepted = @ + accepted, !.resumed = @ + resumed]}

\* Variant: the check looks at the token's state and not at the key.
WaitingForExpected_KeyIgnored(token, expectedWaitingFor) == IsWaiting(token)

\* Variant: no check at all.
WaitingForExpected_Always(token, expectedWaitingFor) == TRUE

\* "Check if token is waiting for expected condition"
WaitingForExpected(token, expectedWaitingFor) ==
  IsWaiting(token) /\ token.waitingFor = expectedWaitingFor

\* CallbackHelper.LoadAndValidateToken
LoadAndValidateToken(tokenID, expectedWaitingFor, loadFails) ==
  IF loadFails THEN [err |-> "load", token |-> NoToken]
  ELSE IF ~WaitingForExpected(tokens[tokenID], expectedWaitingFor)
  THEN [err |-> "not_waiting", token |-> NoToken]
  ELSE [err |-> "", token |-> tokens[tokenID]]

\* The handler takes the lock of the callback's instance, then loads and
\* validates the token of its callback.
Enter(h, fail) ==
  LET hd == handlers[h]
      r == LoadAndValidateToken(hd.cb.tok, hd.cb.key, fail)
  IN
  /\ hd.pc = "wait"
  /\ lock[hd.cb.inst] = "free"
  /\ fail \in FaultChoices
  /\ faults' = IF fail THEN faults + 1 ELSE faults
  /\ lock' = [lock EXCEPT ![hd.cb.inst] = h]
  /\ handlers' = [handlers EXCEPT ![h] =
       IF r.err # ""
       THEN [hd EXCEPT !.pc = "ret", !.outcome = "error", !.rejected = (r.err = "not_waiting")]
       ELSE [hd EXCEPT !.pc = "run", !.loaded = r.token]]
  /\ waits' = IF r.err = "" THEN Counted(hd.cb.tok, stats[hd.cb.tok].suspended, 1, 0) ELSE waits
  /\ UNCHANGED <<instances, tokens, timers, jobs, issued, stats, deliveries, coreVars>>

\* Variant: the token is written and moved without clearing its wait.
PCCStages_NoClear == <<"cancelBoundary", "update", "move">>

\* Variant: the boundary timers are cancelled after the move.
PCCStages_CancelLast == <<"clear", "update", "move", "cancelBoundary">>

\* Statement order of ProcessCallbackAndContinue.
PCCStages == <<"clear", "cancelBoundary", "update", "move">>

\* Variant: the EVENT timers are cancelled after the token has moved.
FlowsStages_CancelLast ==
  <<"clear", "cancelBoundary", "update", "resolve", "moveTo", "cancelEvent", "execute">>

\* Statement order of ProcessCallbackAndContinueWithFlows.
FlowsStages ==
  <<"clear", "cancelBoundary", "cancelEvent", "update", "resolve", "moveTo", "execute">>

\* Variant: the callback's variables are dropped.
ClearAndMerge_NoMerge(token, variables) == ClearWaitingFor(token)

\* token.ClearWaitingFor(); if variables != nil { token.MergeVariables(variables) }
ClearAndMerge(token, variables) ==
  LET cleared == ClearWaitingFor(token) IN
  IF variables.nil THEN cleared
  ELSE [cleared EXCEPT !.vars = MergeVariables(@, variables.map)]

\* component.CancelBoundaryTimersForToken / CancelEventTimersForToken: every
\* pending timer of that kind and token is cancelled.
CancelTimersForToken(tms, tokenID, kind) ==
  [i \in DOMAIN tms |->
     IF tms[i].tok = tokenID /\ tms[i].kind = kind /\ tms[i].status = "PENDING"
     THEN [tms[i] EXCEPT !.status = "CANCELLED"] ELSE tms[i]]

\* Variant: the token departs from the element the callback names.
DepartureElement_FromCallback(token, elementID) == elementID

\* "Use token.CurrentElementID instead of elementID parameter"
DepartureElement(token, elementID) == IF token.cur = NoElement THEN elementID ELSE token.cur

\* Whether the element has an outgoing flow to move along.
HasNextElements(elementId) ==
  elementId \in ElementIds /\ Elements[elementId].outgoing # <<>>

\* TokenMovement.MoveTokenToNextElements: the token moves along the outgoing flow
\* of the element, is persisted and queued for its next step.
MoveTokenToNextElements(token, currentElementID) ==
  MoveTo(token, findTargetElementByFlowID(Elements[currentElementID].outgoing[1],
                                          token.processKey))

\* "Move token to first target element": token.MoveTo(targetElements[0])
MoveToFirstTarget(token, targetElements) == MoveTo(token, targetElements[1])

\* What a handler body works on: its token, the store, the timers, what it did.
Work(hd) ==
  [token |-> hd.loaded, tokens |-> tokens, timers |-> timers, stats |-> stats,
   targets |-> <<>>, placed |-> {}, log |-> <<>>, outcome |-> "running"]

Moved(w, tok, moved) ==
  [w EXCEPT !.token = moved, !.tokens[tok] = moved, !.placed = @ \cup {moved.cur},
            !.stats[tok] = MoveStats(@, w.token.cur, moved.cur)]

\* Variant: a failed timer cancellation returns the error to the caller.
AfterCancelFailure_Fatal(done, error) == error

\* "Continue execution - boundary timer cancellation is not critical": the
\* failure is logged and the handler goes on.
AfterCancelFailure(done, error) == done

\* One statement of a handler body; fail: the operation it calls returns an error.
\* Timer cancellation errors are logged and ignored, the others return.
Statement(name, w, cb, fail) ==
  LET done == [w EXCEPT !.log = Append(@, name)]
      error == [w EXCEPT !.outcome = "error"]
  IN
  CASE name = "clear" -> [done EXCEPT !.token = ClearAndMerge(@, cb.vars)]
    [] name = "cancelBoundary" ->
         IF fail THEN AfterCancelFailure(done, error)
         ELSE [done EXCEPT !.timers = CancelTimersForToken(@, cb.tok, "BOUNDARY")]
    [] name = "cancelEvent" ->
         IF fail THEN AfterCancelFailure(done, error)
         ELSE [done EXCEPT !.timers = CancelTimersForToken(@, cb.tok, "EVENT")]
    [] name = "update" ->
         IF fail THEN error ELSE [done EXCEPT !.tokens[cb.tok] = w.token]
    [] name = "move" ->
         IF fail \/ ~HasNextElements(DepartureElement(w.token, cb.elementId)) THEN error
         ELSE Moved(done, cb.tok,
                    MoveTokenToNextElements(w.token, DepartureElement(w.token, cb.elementId)))
    [] name = "resolve" ->
         LET found == TargetElements(cb.flows, w.token.processKey) IN
         IF fail \/ Len(found) = 0 THEN error ELSE [done EXCEPT !.targets = found]
    [] name = "moveTo" ->
         IF fail THEN error ELSE Moved(done, cb.tok, MoveToFirstTarget(w.token, w.targets))
    [] name = "execute" -> IF fail THEN error ELSE done

\* The statements in order, up to the first that returns an error.
RECURSIVE Run(_, _, _, _, _)
Run(stages, i, w, cb, failing) ==
  IF i > Len(stages) THEN [w EXCEPT !.outcome = "ok"]
  ELSE CHOOSE after \in
         {IF next.outcome = "error" THEN next ELSE Run(stages, i + 1, next, cb, failing) :
            next \in {Statement(stages[i], w, cb, i \in failing)}} : TRUE

\* CallbackHelper.ProcessCallbackAndContinue
ProcessCallbackAndContinue(hd, failing) == Run(PCCStages, 1, Work(hd), hd.cb, failing)

\* CallbackHelper.ProcessCallbackAndContinueWithFlows
ProcessCallbackAndContinueWithFlows(hd, failing) ==
  Run(FlowsStages, 1, Work(hd), hd.cb, failing)

\* Statements of a handler body whose operation may fail.
FaultSets == {fs \in SUBSET (1..7) : Cardinality(fs) <= MaxFaults - faults}

\* The handler resumes the validated token.
Process(h, failing) ==
  LET hd == handlers[h]
      w == IF hd.cb.via = "continue" THEN ProcessCallbackAndContinue(hd, failing)
           ELSE ProcessCallbackAndContinueWithFlows(hd, failing)
  IN
  /\ hd.pc = "run"
  /\ failing \in FaultSets
  /\ faults' = faults + Cardinality(failing)
  /\ tokens' = w.tokens
  /\ timers' = w.timers
  /\ stats' = w.stats
  /\ handlers' = [handlers EXCEPT ![h] =
       [hd EXCEPT !.pc = "ret", !.outcome = w.outcome, !.placed = w.placed, !.log = w.log]]
  /\ waits' = IF w.tokens # tokens THEN Counted(hd.cb.tok, stats[hd.cb.tok].suspended, 0, 1) ELSE waits
  /\ UNCHANGED <<instances, jobs, issued, lock, deliveries, coreVars>>

\* handleJobsResponse: what it logs about the job callback it handed to
\* HandleJobCallback, by that call's outcome.
handleJobsResponse(outcome) ==
  IF outcome = "error" THEN "Failed to handle job callback in process component"
  ELSE "Job callback processed successfully"

\* The handler returns to the collaborator that delivered the callback and
\* releases the instance.
Return(h) ==
  /\ handlers[h].pc = "ret"
  /\ lock' = [lock EXCEPT ![handlers[h].cb.inst] = "free"]
  /\ handlers' = [handlers EXCEPT ![h] = IdleHandler]
  /\ UNCHANGED <<instances, tokens, timers, jobs, issued, stats, deliveries, waits, faults, coreVars>>

Next ==
  \/ \E pk \in StartKeys, v \in StartVars : StartProcessInstance(pk, v)
  \/ \E t \in TokenIds : StepStartEvent(t)
  \/ \E t \in TokenIds, f \in {"pf3", "pf4"} : StepExclusiveGateway(t, f)
  \/ \E t \in TokenIds : StepEndEvent(t)
  \/ \E t \in TokenIds, fail \in BOOLEAN : StepCallActivity(t, fail)
  \/ \E t \in TokenIds : StepServiceTask(t)
  \/ \E t \in TokenIds : StepEventGateway(t)
  \/ \E j \in DOMAIN jobs, v \in CallbackVars : CompleteJob(j, v)
  \/ \E i \in DOMAIN timers, fl \in {<<>>} \cup FlowInputs("ofa") \cup FlowInputs("ofb") : FireTimer(i, fl)
  \/ \E h \in Handlers, cb \in issued : Deliver(h, cb)
  \/ \E h \in Handlers, fail \in BOOLEAN : Enter(h, fail)
  \/ \E h \in Handlers, failing \in SUBSET (1..7) : Process(h, failing)
  \/ \E h \in Handlers : Return(h)

Spec == Init /\ [][Next]_vars

\* One step of the step loop on token t, no operation failing.
Step(t) ==
  \/ StepStartEvent(t)
  \/ \E f \in {"pf3", "pf4"} : StepExclusiveGateway(t, f)
  \/ StepEndEvent(t)
  \/ StepCallActivity(t, FALSE)
  \/ StepServiceTask(t)
  \/ StepEventGateway(t)

\* The engine with no operation failing.
LiveNext ==
  \/ \E pk \in StartKeys, v \in StartVars : StartProcessInstance(pk, v)
  \/ \E t \in TokenIds : Step(t)
  \/ \E j \in DOMAIN jobs, v \in CallbackVars : CompleteJob(j, v)
  \/ \E i \in DOMAIN timers, fl \in {<<>>} \cup FlowInputs("ofa") \cup FlowInputs("ofb") : FireTimer(i, fl)
  \/ \E h \in Handlers, cb \in issued : Deliver(h, cb)
  \/ \E h \in Handlers : Enter(h, FALSE)
  \/ \E h \in Handlers : Process(h, {})
  \/ \E h \in Handlers : Return(h)

\* Tokens a run can hold: the token of the started instance and one per child,
\* at most one child per arrival at the call activity.
MaxTokens == 1 + MaxArrivals

\* The workers keep stepping every runnable token, and a handler that was handed
\* a callback keeps running: it takes the lock when it is free, does its work
\* and returns.
Fairness ==
  /\ \A t \in 1..MaxTokens : WF_vars(Step(t))
  /\ \A h \in Handlers : WF_vars(Enter(h, FALSE))
  /\ \A h \in Handlers : WF_vars(Process(h, {}))
  /\ \A h \in Handlers : WF_vars(Return(h))

LiveSpec == Init /\ [][LiveNext]_vars /\ Fairness

(* ------------------------- parallel branches --------------------------- *)

\* The engine on an instance of Fork: two branches meet at the join, the third
\* calls Child.
ParallelNext ==
  \/ \E v \in StartVars : StartProcessInstance("Fork", v)
  \/ \E t \in TokenIds : StepStartEvent(t)
  \/ \E t \in TokenIds : StepParallelSplit(t)
  \/ \E t \in TokenIds : StepParallelJoin(t)
  \/ \E t \in TokenIds, fail \in BOOLEAN : StepCallActivity(t, fail)
  \/ \E t \in TokenIds : StepEndEvent(t)
  \/ \E h \in Handlers, cb \in issued : Deliver(h, cb)
  \/ \E h \in Handlers, fail \in BOOLEAN : Enter(h, fail)
  \/ \E h \in Handlers, failing \in SUBSET (1..7) : Process(h, failing)
  \/ \E h \in Handlers : Return(h)

ParallelSpec == Init /\ [][ParallelNext]_vars

(* ---------------------- job callbacks by element id -------------------- *)

\* Element ids a job callback may carry in its element_id field: the element of
\* the job, or another element of the process.
CallbackElements == {"O_Task", "O_Gw"}

\* handleJobsResponse hands HandleJobCallback the element_id of the callback
\* message, which need not be the element the job's token is on.
JobCallback(j, elementID, v) ==
  /\ j \in DOMAIN jobs
  /\ jobs[j].state = "ACTIVATABLE"
  /\ jobs' = [jobs EXCEPT ![j].state = "COMPLETED"]
  /\ issued' = issued \cup
       {[tok |-> jobs[j].tok, inst |-> jobs[j].inst, key |-> Key("job", j),
         elementId |-> elementID, vars |-> v, flows |-> <<>>, via |-> "continue"]}
  /\ UNCHANGED <<instances, tokens, timers, handlers, lock, stats, deliveries, waits, faults, coreVars>>

\* The engine on an instance of Order whose job callback names any element.
CallbackNext ==
  \/ \E v \in StartVars : StartProcessInstance("Order", v)
  \/ \E t \in TokenIds : StepStartEvent(t)
  \/ \E t \in TokenIds : StepServiceTask(t)
  \/ \E j \in DOMAIN jobs, e \in CallbackElements, v \in CallbackVars : JobCallback(j, e, v)
  \/ \E h \in Handlers, cb \in issued : Deliver(h, cb)
  \/ \E h \in Handlers, fail \in BOOLEAN : Enter(h, fail)
  \/ \E h \in Handlers, failing \in SUBSET (1..7) : Process(h, failing)
  \/ \E h \in Handlers : Return(h)

CallbackSpec == Init /\ [][CallbackNext]_vars

(* ---------------------- call activities that fail ---------------------- *)

\* The engine on an instance of Linear or Loop, whose call activity names Child,
\* or of Broken, whose call activity names no process.
CallNext ==
  \/ \E pk \in {"Linear", "Loop", "Broken"}, v \in StartVars : StartProcessInstance(pk, v)
  \/ \E t \in TokenIds : StepStartEvent(t)
  \/ \E t \in TokenIds, f \in {"pf3", "pf4"} : StepExclusiveGateway(t, f)
  \/ \E t \in TokenIds, fail \in BOOLEAN : StepCallActivity(t, fail)
  \/ \E t \in TokenIds : StepEndEvent(t)
  \/ \E h \in Handlers, cb \in issued : Deliver(h, cb)
  \/ \E h \in Handlers, fail \in BOOLEAN : Enter(h, fail)
  \/ \E h \in Handlers, failing \in SUBSET (1..7) : Process(h, failing)
  \/ \E h \in Handlers : Return(h)

CallSpec == Init /\ [][CallNext]_vars

(* ------------------------ jobs response channel ------------------------ *)

\* Messages the jobs dispatcher puts on its response channel in one run.
MaxResponses == 3

\* A text is the sequence of its pieces, each piece a run of characters that the
\* searches below take as a whole.  The JSON of a job callback: its type, job id,
\* element id, token id, status and error message, then the text of its variables.
VariableTexts == {<<>>, <<"x">>, <<"api", "_response">>}

\* The job callbacks of the dispatcher: a completion or a failure of job-1.
JobCallbacks ==
  {[type |-> "job_completed", job_id |-> "job-1", element_id |-> "O_Task",
    token_id |-> "token-1", status |-> "COMPLETED", error_message |-> "", variables |-> v] :
     v \in VariableTexts}
  \cup
  {[type |-> "job_failed", job_id |-> "job-1", element_id |-> "O_Task",
    token_id |-> "token-1", status |-> "FAILED", error_message |-> "worker error",
    variables |-> v] : v \in VariableTexts}

\* The JSON text of a job callback.
Marshal(cb) ==
  <<cb.type, cb.job_id, cb.element_id, cb.token_id, cb.status, cb.error_message>>
    \o cb.variables

\* The JSON text of the response to an API request: type list_jobs_response.
ApiResponse == <<"list_jobs", "_response", "request-1">>

\* Whether the dispatcher produced the text as a job callback.
IsCallbackText(text) == \E cb \in JobCallbacks : text = Marshal(cb)

\* findInString: index of the first occurrence of substr in s, from 0, or -1.
findInString(s, substr) ==
  IF Len(substr) = 0 THEN 0
  ELSE IF Len(s) < Len(substr) THEN -1
  ELSE LET hits == {i \in 0..(Len(s) - Len(substr)) :
                      SubSeq(s, i + 1, i + Len(substr)) = substr}
       IN IF hits = {} THEN -1 ELSE CHOOSE i \in hits : \A j \in hits : i <= j

\* contains
contains(s, substr) == Len(s) >= Len(substr) /\ findInString(s, substr) # -1

\* Core.isJobCallback
isJobCallback(response) ==
  /\ Len(response) > 0
  /\ ~contains(response, <<"_response">>)
  /\ contains(response, <<"job_completed">>) \/ contains(response, <<"job_failed">>)

\* json.Unmarshal into fullCallback, and the arguments HandleJobCallback gets.
Unmarshal(response) ==
  [job_id |-> response[2], element_id |-> response[3], token_id |-> response[4],
   status |-> response[5], error_message |-> response[6],
   variables |-> SubSeq(response, 7, Len(response))]

\* The dispatcher puts a job callback on the response channel.
PutJobCallback(cb) ==
  /\ responses < MaxResponses
  /\ responses' = responses + 1
  /\ channel' = Append(channel, Marshal(cb))
  /\ UNCHANGED <<forwarded, ignored, caller, replies, firings, messageVars, engineVars, edgeVars>>

\* JobsHandler.sendJobsRequest: SendMessage("jobs", ...), then WaitForJobsResponse.
sendJobsRequest ==
  /\ caller.pc = "idle"
  /\ caller' = [pc |-> "sent", got |-> <<>>]
  /\ UNCHANGED <<channel, forwarded, ignored, responses, replies, firings, messageVars, engineVars, edgeVars>>

\* The dispatcher answers the request: the API response goes on the channel.
PutApiResponse ==
  /\ caller.pc = "sent"
  /\ responses < MaxResponses
  /\ responses' = responses + 1
  /\ channel' = Append(channel, ApiResponse)
  /\ caller' = [caller EXCEPT !.pc = "waiting"]
  /\ UNCHANGED <<forwarded, ignored, replies, firings, messageVars, engineVars, edgeVars>>

\* Core.processJobsResponses, one round of its loop: receive a response, hand a
\* job callback to handleJobsResponse, which forwards it to HandleJobCallback, and
\* log anything else as ignored.
processJobsResponses ==
  /\ channel # <<>>
  /\ channel' = Tail(channel)
  /\ IF isJobCallback(Head(channel))
     THEN /\ forwarded' = Append(forwarded, Unmarshal(Head(channel)))
          /\ UNCHANGED ignored
     ELSE /\ ignored' = Append(ignored, Head(channel))
          /\ UNCHANGED forwarded
  /\ UNCHANGED <<caller, responses, replies, firings, messageVars, engineVars, edgeVars>>

\* WaitForJobsResponse returns the next response of the channel to the caller.
WaitForJobsResponse ==
  /\ caller.pc = "waiting"
  /\ channel # <<>>
  /\ channel' = Tail(channel)
  /\ caller' = [pc |-> "done", got |-> Head(channel)]
  /\ UNCHANGED <<forwarded, ignored, responses, replies, firings, messageVars, engineVars, edgeVars>>

\* WaitForJobsResponse(30000): no response within the timeout.
WaitTimeout ==
  /\ caller.pc = "waiting"
  /\ channel = <<>>
  /\ caller' = [pc |-> "timeout", got |-> <<>>]
  /\ UNCHANGED <<channel, forwarded, ignored, responses, replies, firings, messageVars, engineVars, edgeVars>>

\* The core server with its jobs processor, the dispatcher and a REST caller.
JobsNext ==
  \/ \E cb \in JobCallbacks : PutJobCallback(cb)
  \/ sendJobsRequest
  \/ PutApiResponse
  \/ processJobsResponses
  \/ WaitForJobsResponse
  \/ WaitTimeout

JobsSpec == Init /\ [][JobsNext]_vars

(* ------------------------------ API adapters --------------------------- *)

\* Calls the API callers make in one run.
MaxCalls == 3

\* Process keys with a deployed definition.
RegisteredKeys == {Elements[id].process : id \in ElementIds}

\* Process keys the API callers ask for.
ApiKeys == {"Linear", "Order", "Unknown"}

\* Instance ids as the callers get them.
InstanceID(n) == [text |-> "instance", n |-> n]
MockInstanceID == [text |-> "mock-instance-id", n |-> 0]
NoInstanceID == [text |-> "", n |-> 0]

\* No result: the nil of an adapter that returns an error.
NoResult == [InstanceID |-> NoInstanceID, ProcessID |-> "", State |-> ""]

\* process.Component.StartProcessInstance: the new instance, or the error for a
\* process key without a definition.
ComponentStartProcessInstance(processKey) ==
  IF processKey \notin RegisteredKeys
  THEN [err |-> "PROCESS_NOT_FOUND", instance |-> 0, state |-> ""]
  ELSE [err |-> "", instance |-> Len(instances) + 1, state |-> "ACTIVE"]

\* processComponentAdapter.StartProcessInstance: the component's error, or the
\* result built from the component's instance.
AdapterResult(processKey, r) ==
  IF r.err # "" THEN [result |-> NoResult, err |-> r.err]
  ELSE [result |-> [InstanceID |-> InstanceID(r.instance), ProcessID |-> processKey,
                    State |-> r.state],
        err |-> ""]

\* processComponentRESTAdapter.StartProcessInstance: "For now, return a mock result"
RESTAdapterResult(processKey) ==
  [result |-> [InstanceID |-> MockInstanceID, ProcessID |-> processKey, State |-> "ACTIVE"],
   err |-> ""]

\* What a caller got back from a call.
Reply(op, via, processKey, inst, r) ==
  [op |-> op, via |-> via, processKey |-> processKey, inst |-> inst,
   result |-> r.result, err |-> r.err]

\* A start through the gRPC adapter: the component creates the instance.
AdapterStartProcessInstance(processKey, variables) ==
  LET r == ComponentStartProcessInstance(processKey) IN
  /\ Len(replies) < MaxCalls
  /\ replies' = Append(replies, Reply("start", "grpc", processKey, 0, AdapterResult(processKey, r)))
  /\ IF r.err = ""
     THEN /\ instances' = Append(instances, NewInstance(processKey, variables, 0))
          /\ lock' = Append(lock, "free")
          /\ tokens' = Append(tokens, NewToken(r.instance, processKey, variables))
          /\ stats' = Append(stats, NoStats)
     ELSE UNCHANGED <<instances, lock, tokens, stats>>
  /\ UNCHANGED <<timers, jobs, issued, handlers, deliveries, waits, faults, jobsVars, firings, messageVars, edgeVars>>

\* ProcessHandler.StartProcess: a start through the REST handler and its adapter.
StartProcess(processKey, variables) ==
  /\ Len(replies) < MaxCalls
  /\ replies' = Append(replies, Reply("start", "rest", processKey, 0, RESTAdapterResult(processKey)))
  /\ UNCHANGED <<engineVars, jobsVars, firings, messageVars, edgeVars>>

\* The instance and the instances its call activities have started.
RECURSIVE Family(_)
Family(insts) ==
  LET more == insts \cup {c \in DOMAIN instances :
                            /\ instances[c].parentTok # 0
                            /\ tokens[instances[c].parentTok].inst \in insts}
  IN IF more = insts THEN insts ELSE Family(more)

\* process.Component.CancelProcessInstance: all tokens CANCELLED, timers and
\* activatable jobs of the instance cancelled, instance CANCELLED.
ComponentCancelProcessInstance(instanceID) ==
  LET fam == Family({instanceID}) IN
  [tokens |-> [t \in DOMAIN tokens |->
                 IF tokens[t].inst \in fam
                 THEN [tokens[t] EXCEPT !.state = "CANCELLED", !.waitingFor = NoKey]
                 ELSE tokens[t]],
   timers |-> [i \in DOMAIN timers |->
                 IF timers[i].inst \in fam /\ timers[i].status = "PENDING"
                 THEN [timers[i] EXCEPT !.status = "CANCELLED"] ELSE timers[i]],
   jobs |-> [j \in DOMAIN jobs |->
               IF jobs[j].inst \in fam /\ jobs[j].state = "ACTIVATABLE"
               THEN [jobs[j] EXCEPT !.state = "CANCELLED"] ELSE jobs[j]],
   instances |-> [i \in DOMAIN instances |->
                    IF i \in fam THEN [instances[i] EXCEPT !.state = "CANCELLED"]
                    ELSE instances[i]]]

\* processComponentAdapter.CancelProcessInstance: the component's cancel.
AdapterCancelProcessInstance(instanceID) ==
  LET after == ComponentCancelProcessInstance(instanceID) IN
  /\ Len(replies) < MaxCalls
  /\ instanceID \in DOMAIN instances
  /\ lock[instanceID] = "free"
  /\ replies' = Append(replies, Reply("cancel", "grpc", "", instanceID,
                                      [result |-> NoResult, err |-> ""]))
  /\ tokens' = after.tokens
  /\ timers' = after.timers
  /\ jobs' = after.jobs
  /\ instances' = after.instances
  /\ UNCHANGED <<issued, handlers, lock, stats, deliveries, waits, faults, jobsVars, firings, messageVars, edgeVars>>

\* ProcessHandler.CancelProcess through processComponentRESTAdapter.CancelProcessInstance
\* ("Mock implementation", return nil): 200, "Process instance cancelled successfully".
CancelProcess(instanceID) ==
  /\ Len(replies) < MaxCalls
  /\ instanceID \in DOMAIN instances
  /\ replies' = Append(replies, Reply("cancel", "rest", "", instanceID,
                                      [result |-> NoResult, err |-> ""]))
  /\ UNCHANGED <<engineVars, jobsVars, firings, messageVars, edgeVars>>

\* The API callers and the step loop on the instances they start.
ApiNext ==
  \/ \E pk \in ApiKeys, v \in StartVars : AdapterStartProcessInstance(pk, v)
  \/ \E pk \in ApiKeys, v \in StartVars : StartProcess(pk, v)
  \/ \E i \in DOMAIN instances : AdapterCancelProcessInstance(i)
  \/ \E i \in DOMAIN instances : CancelProcess(i)
  \/ \E t \in TokenIds : StepStartEvent(t)
  \/ \E t \in TokenIds : StepCallActivity(t, FALSE)
  \/ \E t \in TokenIds : StepServiceTask(t)
  \/ \E t \in TokenIds : StepEndEvent(t)

ApiSpec == Init /\ [][ApiNext]_vars

(* --------------------------- message correlator ------------------------ *)

\* Messages published, subscriptions made and time units passing in one run.
MaxMessages == 2
MaxSubscriptions == 2
MaxTime == 2

MessageNames == {"m"}
CorrelationKeys == {"o1", "o2"}
TtlChoices == {1, 2}

\* The message or subscription is for (name, correlationKey).
Matches(x, name, correlationKey) == x.name = name /\ x.correlationKey = correlationKey

\* The message's TTL has not elapsed.
NotExpired(msg) == now < msg.publishedAt + msg.ttlSeconds

\* The buffered messages a subscription to (name, correlationKey) can consume.
Available(name, correlationKey) ==
  {m \in DOMAIN buffer :
     /\ Matches(buffer[m], name, correlationKey)
     /\ buffer[m].consumedBy = 0
     /\ NotExpired(buffer[m])}

\* The pending subscriptions a message for (name, correlationKey) can match.
Pending(name, correlationKey) ==
  {s \in DOMAIN subscriptions :
     Matches(subscriptions[s], name, correlationKey) /\ subscriptions[s].status = "PENDING"}

\* Variant: the consumed message is not marked.
Consume_Unmarked(msg, subscriptionId) == msg

\* The message is marked as consumed by the subscription.
Consume(msg, subscriptionId) == [msg EXCEPT !.consumedBy = subscriptionId]

\* publish(message): the oldest pending matching subscription is matched and
\* fired; without one the message is buffered with its TTL.
publish(name, correlationKey, ttlSeconds) ==
  LET messageId == Len(buffer) + 1
      pending == Pending(name, correlationKey)
      oldest == CHOOSE s \in pending : \A o \in pending : s <= o
      msg == [name |-> name, correlationKey |-> correlationKey, publishedAt |-> now,
              ttlSeconds |-> ttlSeconds, consumedBy |-> 0, buffered |-> pending = {}]
  IN
  /\ Len(buffer) < MaxMessages
  /\ IF pending # {}
     THEN /\ buffer' = Append(buffer, Consume(msg, oldest))
          /\ subscriptions' = [subscriptions EXCEPT ![oldest].status = "MATCHED",
                                                    ![oldest].message = messageId]
     ELSE /\ buffer' = Append(buffer, msg)
          /\ UNCHANGED subscriptions
  /\ UNCHANGED <<now, engineVars, jobsVars, replies, firings, edgeVars>>

\* subscribe(subscriptionId, name, key, tokenId): one buffered matching message
\* whose TTL has not elapsed is marked as consumed and the subscription fires;
\* without one the subscription stays pending.
subscribe(name, correlationKey) ==
  LET subscriptionId == Len(subscriptions) + 1
      sub == [name |-> name, correlationKey |-> correlationKey, createdAt |-> now,
              status |-> "PENDING", message |-> 0]
  IN
  /\ Len(subscriptions) < MaxSubscriptions
  /\ IF Available(name, correlationKey) # {}
     THEN \E m \in Available(name, correlationKey) :
            /\ buffer' = [buffer EXCEPT ![m] = Consume(@, subscriptionId)]
            /\ subscriptions' = Append(subscriptions,
                                       [sub EXCEPT !.status = "MATCHED", !.message = m])
     ELSE /\ subscriptions' = Append(subscriptions, sub)
          /\ UNCHANGED buffer
  /\ UNCHANGED <<now, engineVars, jobsVars, replies, firings, edgeVars>>

\* Time passes.
Tick ==
  /\ now < MaxTime
  /\ now' = now + 1
  /\ UNCHANGED <<buffer, subscriptions, engineVars, jobsVars, replies, firings, edgeVars>>

\* The message correlator with its publishers and subscribers.
MessageNext ==
  \/ \E n \in MessageNames, k \in CorrelationKeys, ttl \in TtlChoices : publish(n, k, ttl)
  \/ \E n \in MessageNames, k \in CorrelationKeys : subscribe(n, k)
  \/ Tick

MessageSpec == Init /\ [][MessageNext]_vars

(* ------------------------- rate-limit middleware ----------------------- *)

\* HTTP requests that go through the middleware in one run.
MaxRequests == 2

\* config.SkipPaths of the default configuration.
SkipPaths == {"/health", "/metrics"}

\* Request paths: a skip path and an API path.
Paths == {"/health", "/api/v1/jobs"}

\* The configurations UpdateConfig may install.
RateLimitConfigs == [Enabled : BOOLEAN, UseAuthRateLimiter : BOOLEAN]

\* The auth component as the middleware finds it: nil, not ready, ready without
\* a rate limiter, or ready with one.
AuthStates == {"nil", "notReady", "noLimiter", "ready"}

\* The gin context of a request that no handler of the chain has run on yet.
NewContext(path, clientID) ==
  [path |-> path, client |-> clientID, log |-> <<>>, status |-> 0, aborted |-> FALSE]

\* gin: c.Next() runs the rest of the chain, the downstream handler, unless the
\* context is aborted or the handler has run.
GinNext(c) ==
  IF c.aborted \/ \E i \in DOMAIN c.log : c.log[i] = "downstream" THEN c
  ELSE [c EXCEPT !.log = Append(@, "downstream"), !.status = 200]

\* gin: c.JSON(code, ...); c.Abort()
AbortWith(c, code) ==
  [c EXCEPT !.log = Append(@, "abort"), !.status = code, !.aborted = TRUE]

\* RateLimitMiddleware.shouldSkipPath
shouldSkipPath(path) == path \in SkipPaths

\* Variant: a rejected request is answered 429 and not aborted.
checkAuthRateLimit_NoAbort(c, rec, auth, allowed) ==
  IF auth \in {"nil", "notReady", "noLimiter"} THEN [ok |-> TRUE, c |-> c, recorded |-> rec]
  ELSE IF ~allowed
  THEN [ok |-> FALSE, c |-> [c EXCEPT !.log = Append(@, "check"), !.status = 429],
        recorded |-> rec]
  ELSE [ok |-> TRUE, c |-> [c EXCEPT !.log = @ \o <<"check", "record">>],
        recorded |-> [rec EXCEPT ![c.client] = @ + 1]]

\* RateLimitMiddleware.checkAuthRateLimit; allowed: what CheckLimit returns.
checkAuthRateLimit(c, rec, auth, allowed) ==
  IF auth \in {"nil", "notReady", "noLimiter"} THEN [ok |-> TRUE, c |-> c, recorded |-> rec]
  ELSE IF ~allowed
  THEN [ok |-> FALSE, c |-> AbortWith([c EXCEPT !.log = Append(@, "check")], 429),
        recorded |-> rec]
  ELSE [ok |-> TRUE, c |-> [c EXCEPT !.log = @ \o <<"check", "record">>],
        recorded |-> [rec EXCEPT ![c.client] = @ + 1]]

\* RateLimitMiddleware.checkBuiltinRateLimit: "not implemented, allowing request"
checkBuiltinRateLimit(c, rec) == [ok |-> TRUE, c |-> c, recorded |-> rec]

\* RateLimitMiddleware.addRateLimitHeaders
addRateLimitHeaders(c) == [c EXCEPT !.log = Append(@, "headers")]

\* The function RateLimitMiddleware.Handler returns, run on a context.
RateLimitHandler(c, config, rec, auth, allowed) ==
  IF ~config.Enabled THEN [c |-> GinNext(c), recorded |-> rec]
  ELSE IF shouldSkipPath(c.path) THEN [c |-> GinNext(c), recorded |-> rec]
  ELSE LET r == IF config.UseAuthRateLimiter /\ auth # "nil"
                THEN checkAuthRateLimit(c, rec, auth, allowed)
                ELSE checkBuiltinRateLimit(c, rec)
       IN IF ~r.ok THEN [c |-> r.c, recorded |-> r.recorded]
          ELSE [c |-> GinNext(addRateLimitHeaders(r.c)), recorded |-> r.recorded]

\* gin serves a request: the middleware runs on its context, and when the
\* middleware has returned the rest of the chain runs unless the context is
\* aborted.  What is served is kept with the configuration, the state of the
\* auth component and the rate limiter's answer at the time.  Where the
\* middleware does not look at the auth component, the component is ready and
\* its limiter would answer as given; an auth component that is not ready has
\* no answer to give.
ServeHTTP(path, clientID, auth, allowed) ==
  LET r == RateLimitHandler(NewContext(path, clientID), rlmConfig, recorded, auth, allowed)
  IN
  /\ Len(served) < MaxRequests
  /\ (~rlmConfig.Enabled \/ shouldSkipPath(path) \/ ~rlmConfig.UseAuthRateLimiter)
       => auth = "ready"
  /\ auth # "ready" => ~allowed
  /\ recorded' = r.recorded
  /\ served' = Append(served, [c |-> GinNext(r.c), config |-> rlmConfig, auth |-> auth,
                               allowed |-> allowed])
  /\ UNCHANGED <<rlmConfig, tested, restVars, engineVars, jobsVars, replies, firings, messageVars>>

\* RateLimitMiddleware.UpdateConfig
UpdateConfig(config) ==
  /\ config # rlmConfig
  /\ rlmConfig' = config
  /\ UNCHANGED <<recorded, served, tested, restVars, engineVars, jobsVars, replies, firings, messageVars>>

\* The HTTP server with its rate-limit middleware.
MiddlewareNext ==
  \/ \E p \in Paths, cl \in ClientIds, a \in AuthStates, ok \in BOOLEAN : ServeHTTP(p, cl, a, ok)
  \/ \E config \in RateLimitConfigs : UpdateConfig(config)

MiddlewareSpec == Init /\ [][MiddlewareNext]_vars

(* ------------------------- expression service -------------------------- *)

\* Test cases a TestExpression request holds at most.
MaxCases == 2

\* Expressions under test: a variable, and one whose value JSON cannot hold.
Expressions == {"=x", "=nan"}

\* Contexts of a test case: none, two JSON objects, and text that is not JSON.
Contexts == {"", "{\"x\":1}", "{\"x\":2}", "{"}

\* Expected results of a test case, as JSON text.
ExpectedResults == {"1", "2"}

\* The test cases: name, context and expected result.
TestCases == [Name : {"t1", "t2"}, Context : Contexts, ExpectedResult : ExpectedResults]

RECURSIVE SeqsUpTo(_, _)
\* The sequences over S of length at most n.
SeqsUpTo(S, n) ==
  IF n = 0 THEN {<<>>}
  ELSE LET shorter == SeqsUpTo(S, n - 1)
       IN shorter \cup {Append(q, x) : q \in {r \in shorter : Len(r) = n - 1}, x \in S}

\* What core.GetExpressionComponent() returns: the component, nil, or a
\* component of another type.
ComponentStates == {"component", "nil", "otherType"}

\* getExpressionComponent
getExpressionComponent(componentIf) ==
  IF componentIf = "nil" THEN [err |-> "expression component not available"]
  ELSE IF componentIf # "component"
  THEN [err |-> "expression component type assertion failed"]
  ELSE [err |-> ""]

\* json.Unmarshal([]byte(testCase.Context), &variables)
UnmarshalContext(context) ==
  CASE context = "{\"x\":1}" -> [err |-> FALSE, variables |-> [x |-> 1]]
    [] context = "{\"x\":2}" -> [err |-> FALSE, variables |-> [x |-> 2]]
    [] OTHER -> [err |-> TRUE, variables |-> EmptyVars]

\* expressionComp.EvaluateExpression: the value of the variable, an error for a
\* variable the context does not hold, or not-a-number.
EvaluateExpression(expression, variables) ==
  IF expression = "=nan" THEN [err |-> FALSE, value |-> [kind |-> "nan", n |-> 0]]
  ELSE IF "x" \in DOMAIN variables
  THEN [err |-> FALSE, value |-> [kind |-> "number", n |-> variables.x]]
  ELSE [err |-> TRUE, value |-> [kind |-> "none", n |-> 0]]

\* json.Marshal(result): the JSON text of a number; not-a-number has none.
MarshalResult(value) ==
  IF value.kind # "number" THEN [err |-> TRUE, json |-> ""]
  ELSE [err |-> FALSE, json |-> IF value.n = 1 THEN "1" ELSE "2"]

TestResult(name, passed, actual, expected, error) ==
  [TestName |-> name, Passed |-> passed, ActualResult |-> actual,
   ExpectedResult |-> expected, ErrorMessage |-> error]

\* The body of TestExpression's loop: the result of one test case.
RunTestCase(expression, testCase) ==
  LET parsed == IF testCase.Context # "" THEN UnmarshalContext(testCase.Context)
                ELSE [err |-> FALSE, variables |-> EmptyVars]
      result == EvaluateExpression(expression, parsed.variables)
      resultJSON == MarshalResult(result.value)
  IN IF parsed.err THEN TestResult(testCase.Name, FALSE, "", "", "invalid context JSON")
     ELSE IF result.err THEN TestResult(testCase.Name, FALSE, "", "", "evaluation error")
     ELSE IF resultJSON.err
     THEN TestResult(testCase.Name, FALSE, "", "", "failed to marshal result")
     ELSE TestResult(testCase.Name, resultJSON.json = testCase.ExpectedResult,
                     resultJSON.json, testCase.ExpectedResult, "")

\* Variant: every result counts as passed.
countPassedTests_All(results) == Len(results)

\* countPassedTests
countPassedTests(results) == Cardinality({i \in DOMAIN results : results[i].Passed})

\* countFailedTests
countFailedTests(results) == Cardinality({i \in DOMAIN results : ~results[i].Passed})

\* fmt.Sprintf("Executed %d test cases, %d passed, %d failed", ...)
Summary(executed, passed, failed) ==
  <<"Executed", executed, "test cases", passed, "passed", failed, "failed">>

\* expressionServiceServer.TestExpression: the response to a request.
TestExpressionResponse(req, componentIf) ==
  LET comp == getExpressionComponent(componentIf)
      results == [i \in DOMAIN req.TestCases |-> RunTestCase(req.Expression, req.TestCases[i])]
      allPassed == \A i \in DOMAIN results : results[i].Passed
  IN IF comp.err # ""
     THEN [Results |-> <<>>, AllPassed |-> FALSE, Summary |-> <<comp.err>>]
     ELSE [Results |-> results, AllPassed |-> allPassed,
           Summary |-> Summary(Len(req.TestCases),
                               Len(req.TestCases) - Len(results) + countPassedTests(results),
                               countFailedTests(results))]

\* A client calls TestExpression; the request and its response are kept.
TestExpression(req, componentIf) ==
  /\ tested = <<>>
  /\ tested' = <<[req |-> req, component |-> componentIf,
                  resp |-> TestExpressionResponse(req, componentIf)]>>
  /\ UNCHANGED <<middlewareVars, restVars, engineVars, jobsVars, replies, firings, messageVars>>

\* The expression service and a client that calls it once.
ExpressionNext ==
  /\ tested = <<>>
  /\ \E e \in Expressions, cases \in SeqsUpTo(TestCases, MaxCases), comp \in ComponentStates :
       TestExpression([Expression |-> e, TestCases |-> cases], comp)

ExpressionSpec == Init /\ [][ExpressionNext]_vars

(* --------------------------- REST jobs handler ------------------------- *)

\* HTTP requests the jobs handler gets in one run.
MaxRestRequests == 2

\* A well-formed body of POST /jobs.
CreateJobRequest ==
  [Type |-> "pay", ProcessInstanceID |-> "pi-1", ElementID |-> "task",
   Retries |-> 3, TimeoutMs |-> 1000]

\* The bodies of POST /jobs: the well-formed one, and it with one field missing,
\* at the edge of its range or out of its range; and one with every field wrong.
CreateJobRequests ==
  {CreateJobRequest,
   [CreateJobRequest EXCEPT !.Type = ""],
   [CreateJobRequest EXCEPT !.ProcessInstanceID = ""],
   [CreateJobRequest EXCEPT !.ElementID = ""],
   [Type |-> "", ProcessInstanceID |-> "", ElementID |-> "", Retries |-> 101, TimeoutMs |-> -1]}
  \cup {[CreateJobRequest EXCEPT !.Retries = r] : r \in {-1, 0, 100, 101}}
  \cup {[CreateJobRequest EXCEPT !.TimeoutMs = ms] : ms \in {-1, 0, 86400000, 86400001}}

\* The bodies of POST /jobs/activate.
ActivateJobsRequests ==
  {[Type |-> "pay", Worker |-> "w1", MaxJobs |-> 1],
   [Type |-> "pay", Worker |-> "w2", MaxJobs |-> 0],
   [Type |-> "", Worker |-> "w1", MaxJobs |-> 1],
   [Type |-> "pay", Worker |-> "", MaxJobs |-> 1],
   [Type |-> "pay", Worker |-> "w1", MaxJobs |-> 1001]}

\* The :key of PUT /jobs/:key/complete: job keys as numbers, 0 for the empty key.
JobKeys == 0..MaxRestRequests

\* Validator.ValidateRequired: the field's error for an empty value.
ValidateRequired(value, field) == IF value = "" THEN <<field>> ELSE <<>>

\* Validator.ValidateRange: the field's error for a value outside min..max.
ValidateRange(value, field, min, max) ==
  IF value < min \/ value > max THEN <<field>> ELSE <<>>

RECURSIVE ValidateMultiple(_)
\* Validator.ValidateMultiple: the errors of the checks, in order.
ValidateMultiple(checks) ==
  IF checks = <<>> THEN <<>> ELSE Head(checks) \o ValidateMultiple(Tail(checks))

\* Variant: retries is not checked.
CreateJobChecks_NoRetries(req) ==
  <<ValidateRequired(req.Type, "type"),
    ValidateRequired(req.ProcessInstanceID, "process_instance_id"),
    ValidateRequired(req.ElementID, "element_id"),
    ValidateRange(req.TimeoutMs, "timeout_ms", 0, 86400000)>>

\* CreateJob: the five checks of the request.
CreateJobChecks(req) ==
  <<ValidateRequired(req.Type, "type"),
    ValidateRequired(req.ProcessInstanceID, "process_instance_id"),
    ValidateRequired(req.ElementID, "element_id"),
    ValidateRange(req.Retries, "retries", 0, 100),
    ValidateRange(req.TimeoutMs, "timeout_ms", 0, 86400000)>>

\* ActivateJobs: max_jobs after "if req.MaxJobs <= 0 { req.MaxJobs = 10 }".
DefaultMaxJobs(req) == IF req.MaxJobs <= 0 THEN [req EXCEPT !.MaxJobs = 10] ELSE req

\* ActivateJobs: the three checks of the request.
ActivateJobsChecks(req) ==
  <<ValidateRequired(req.Type, "type"),
    ValidateRequired(req.Worker, "worker"),
    ValidateRange(DefaultMaxJobs(req).MaxJobs, "max_jobs", 1, 1000)>>

\* A response of the jobs component: the key of a created job (0 for none) and
\* the keys of the activated jobs.
JobsResponse(jobKey, activated) == [job_key |-> jobKey, jobs |-> activated]

\* An HTTP exchange: the operation and its request, whether the handler waits for
\* the jobs component or has answered, the status and body of its answer, and the
\* request whose response sendJobsRequest returned to it (0 for none).
Exchange(op, req, pc, status, body, got) ==
  [op |-> op, req |-> req, pc |-> pc, status |-> status, body |-> body, got |-> got]

\* The answer to a request the handler rejects with its validation errors.
ValidationAnswer(op, req, errors) ==
  Exchange(op, req, "done", 400, [errors |-> errors, ID |-> 0, Jobs |-> {}], 0)

\* JobsHandler.sendJobsRequest up to its wait: SendMessage("jobs", reqJSON) puts
\* the message in the component's inbox, or fails and the handler answers with
\* the error.  The message carries no request id; from is kept for the checks.
SendJobs(op, req, msg, sent) ==
  IF sent
  THEN /\ http' = Append(http, Exchange(op, req, "waiting", 0, [errors |-> <<>>, ID |-> 0, Jobs |-> {}], 0))
       /\ inbox' = Append(inbox, [from |-> Len(http) + 1, msg |-> msg])
  ELSE /\ http' = Append(http, Exchange(op, req, "done", 500,
                                        [errors |-> <<"failed to send message">>, ID |-> 0, Jobs |-> {}], 0))
       /\ UNCHANGED inbox

\* JobsHandler.CreateJob, up to the wait for the component's response.
RestCreateJob(req, sent) ==
  LET validationErrors == ValidateMultiple(CreateJobChecks(req)) IN
  /\ Len(http) < MaxRestRequests
  /\ IF Len(validationErrors) > 0
     THEN /\ ~sent
          /\ http' = Append(http, ValidationAnswer("create", req, validationErrors))
          /\ UNCHANGED inbox
     ELSE SendJobs("create", req,
                   [operation |-> "create", type |-> req.Type, max_jobs |-> 0, worker |-> ""],
                   sent)
  /\ UNCHANGED <<store, outbox, middlewareVars, tested, engineVars, jobsVars, replies, firings, messageVars>>

\* JobsHandler.ActivateJobs, up to the wait for the component's response.
RestActivateJobs(req, sent) ==
  LET validationErrors == ValidateMultiple(ActivateJobsChecks(req)) IN
  /\ Len(http) < MaxRestRequests
  /\ IF Len(validationErrors) > 0
     THEN /\ ~sent
          /\ http' = Append(http, ValidationAnswer("activate", req, validationErrors))
          /\ UNCHANGED inbox
     ELSE SendJobs("activate", req,
                   [operation |-> "activate", type |-> req.Type,
                    max_jobs |-> DefaultMaxJobs(req).MaxJobs, worker |-> req.Worker],
                   sent)
  /\ UNCHANGED <<store, outbox, middlewareVars, tested, engineVars, jobsVars, replies, firings, messageVars>>

\* JobsHandler.CompleteJob: an empty key is a bad request; for any other key the
\* handler builds the "complete" message, drops it and answers NOT_IMPLEMENTED.
RestCompleteJob(jobKey) ==
  /\ Len(http) < MaxRestRequests
  /\ http' = Append(http,
       IF jobKey = 0
       THEN Exchange("complete", [Key |-> jobKey], "done", 400,
                     [errors |-> <<"Job key is required">>, ID |-> 0, Jobs |-> {}], 0)
       ELSE Exchange("complete", [Key |-> jobKey], "done", 501,
                     [errors |-> <<"NOT_IMPLEMENTED">>, ID |-> 0, Jobs |-> {}], 0))
  /\ UNCHANGED <<inbox, store, outbox, middlewareVars, tested, engineVars, jobsVars, replies, firings, messageVars>>

\* The ACTIVATABLE jobs of the type with the lowest keys, max of them at most.
Activatable(type, max) ==
  LET able == {k \in DOMAIN store : store[k].type = type /\ store[k].state = "ACTIVATABLE"}
  IN {k \in able : Cardinality({l \in able : l < k}) < max}

\* The jobs component takes the next message of its inbox: it creates a job in
\* ACTIVATABLE state, or moves jobs to ACTIVATED for the worker, and puts its
\* response on the response channel.  by and for are kept for the checks: the
\* request that created or activated the job, and the request answered.
JobsComponentHandle ==
  /\ inbox # <<>>
  /\ inbox' = Tail(inbox)
  /\ LET m == Head(inbox) IN
     IF m.msg.operation = "create"
     THEN /\ store' = Append(store, [type |-> m.msg.type, state |-> "ACTIVATABLE",
                                     worker |-> "", by |-> m.from, activation |-> 0])
          /\ outbox' = Append(outbox, [for |-> m.from, resp |-> JobsResponse(Len(store) + 1, {})])
     ELSE LET chosen == Activatable(m.msg.type, m.msg.max_jobs) IN
          /\ store' = [k \in DOMAIN store |->
                         IF k \in chosen
                         THEN [store[k] EXCEPT !.state = "ACTIVATED", !.worker = m.msg.worker,
                                               !.activation = m.from]
                         ELSE store[k]]
          /\ outbox' = Append(outbox, [for |-> m.from, resp |-> JobsResponse(0, chosen)])
  /\ UNCHANGED <<http, middlewareVars, tested, engineVars, jobsVars, replies, firings, messageVars>>

\* Variant: the jobs of the response.
parseJobsFromResponse_Jobs(response) == response.jobs

\* JobsHandler.parseJobsFromResponse: "return []Job{}".
parseJobsFromResponse(response) == {}

\* The handler's answer once sendJobsRequest has returned the response.
AnswerWith(exchange, response, for) ==
  IF exchange.op = "create"
  THEN IF response.job_key = 0
       THEN [exchange EXCEPT !.pc = "done", !.status = 500, !.got = for,
                             !.body.errors = <<"Job created but key not returned">>]
       ELSE [exchange EXCEPT !.pc = "done", !.status = 201, !.got = for,
                             !.body.ID = response.job_key]
  ELSE [exchange EXCEPT !.pc = "done", !.status = 200, !.got = for,
                        !.body.Jobs = parseJobsFromResponse(response)]

\* WaitForJobsResponse(30000) returns the next response of the channel to a
\* handler that waits, and the handler answers its request.
RestWaitForJobsResponse(i) ==
  /\ http[i].pc = "waiting"
  /\ outbox # <<>>
  /\ outbox' = Tail(outbox)
  /\ http' = [http EXCEPT ![i] = AnswerWith(http[i], Head(outbox).resp, Head(outbox).for)]
  /\ UNCHANGED <<inbox, store, middlewareVars, tested, engineVars, jobsVars, replies, firings, messageVars>>

\* WaitForJobsResponse(30000): no response within the timeout.
RestWaitTimeout(i) ==
  /\ http[i].pc = "waiting"
  /\ outbox = <<>>
  /\ http' = [http EXCEPT ![i].pc = "done", ![i].status = 500,
                          ![i].body.errors = <<"failed to get response">>]
  /\ UNCHANGED <<inbox, store, outbox, middlewareVars, tested, engineVars, jobsVars, replies, firings, messageVars>>

\* The REST jobs handler, its callers and the jobs component.
RestNext ==
  \/ \E req \in CreateJobRequests, sent \in BOOLEAN : RestCreateJob(req, sent)
  \/ \E req \in ActivateJobsRequests, sent \in BOOLEAN : RestActivateJobs(req, sent)
  \/ \E jobKey \in JobKeys : RestCompleteJob(jobKey)
  \/ JobsComponentHandle
  \/ \E i \in DOMAIN http : RestWaitForJobsResponse(i)
  \/ \E i \in DOMAIN http : RestWaitTimeout(i)

RestSpec == Init /\ [][RestNext]_vars

(* ================================ claims ================================ *)

\* What the store, the timers and the scheduler hold.
StoreVars == <<instances, tokens, timers, jobs, issued, stats>>

\* The callback's token is not WAITING for the callback's key.
Stale(cb) == ~(tokens[cb.tok].state = "WAITING" /\ tokens[cb.tok].waitingFor = cb.key)

\* C1: a callback whose token is not WAITING, or waits for another key, is
\* rejected by LoadAndValidateToken, and neither the validation nor the
\* handler's return changes the stored token, the timers or the scheduler state.
C1_StaleCallbackChangesNothing ==
  [][\A h \in Handlers :
       /\ (handlers[h].pc = "wait" /\ handlers'[h].pc # "wait" /\ Stale(handlers[h].cb))
            => /\ handlers'[h].pc = "ret"
               /\ handlers'[h].outcome = "error"
               /\ UNCHANGED StoreVars
       /\ (handlers[h].pc = "ret" /\ handlers[h].rejected /\ handlers'[h] # handlers[h])
            => /\ handlers'[h].pc = "idle"
               /\ UNCHANGED StoreVars]_vars

\* C1 happens: a callback with another key was rejected while its token waits.
C1_Witness ==
  \E h \in Handlers :
    /\ handlers[h].pc = "ret"
    /\ handlers[h].rejected
    /\ tokens[handlers[h].cb.tok].state = "WAITING"
    /\ tokens[handlers[h].cb.tok].waitingFor # handlers[h].cb.key

C3_WaitingIffKey ==
  /\ [](\A t \in DOMAIN tokens :
          (tokens[t].state = "WAITING") <=> (tokens[t].waitingFor # NoKey))
  /\ [](\A t \in DOMAIN tokens :
          (tokens[t].state = "WAITING" /\ IsCallActivity(tokens[t].cur))
            => /\ tokens[t].waitingFor.kind = "call_activity"
               /\ tokens[t].waitingFor.id \in DOMAIN instances
               /\ instances[tokens[t].waitingFor.id].parentTok = t)
  /\ [][\A h \in Handlers :
          (/\ handlers[h].pc = "run"
           /\ handlers'[h].pc = "ret"
           /\ tokens'[handlers[h].cb.tok] # tokens[handlers[h].cb.tok])
            => /\ tokens'[handlers[h].cb.tok].state # "WAITING"
               /\ tokens'[handlers[h].cb.tok].waitingFor = NoKey]_vars

\* C3 happens: a handler has written and moved its token, which is ACTIVE
\* without a key.
C3_Witness ==
  \E h \in Handlers :
    /\ handlers[h].pc = "ret"
    /\ handlers[h].outcome = "ok"
    /\ handlers[h].loaded.state = "WAITING"
    /\ tokens[handlers[h].cb.tok].state = "ACTIVE"
    /\ tokens[handlers[h].cb.tok].waitingFor = NoKey

\* C4: a stale job callback is dropped silently: the handler reports no error
\* for it, and its delivery is logged as processed.
C4_StaleCallbackReportsNoError ==
  \A h \in Handlers :
    (handlers[h].pc = "ret" /\ handlers[h].rejected /\ handlers[h].cb.key.kind = "job")
      => /\ handlers[h].outcome # "error"
         /\ handleJobsResponse(handlers[h].outcome) = "Job callback processed successfully"

\* C5: in a callback handler the cancellation of the token's boundary timers is
\* issued before the token update is written and before the token is moved.
C5_BoundaryCancelBeforeMove ==
  \A h \in Handlers :
    \A i \in DOMAIN handlers[h].log :
      handlers[h].log[i] \in {"update", "move", "moveTo"}
        => \E k \in 1..(i - 1) : handlers[h].log[k] = "cancelBoundary"

\* C5 happens: a handler moved a token whose boundary timer it cancelled.
C5_Witness ==
  \E h \in Handlers :
    /\ handlers[h].pc = "ret"
    /\ \E i \in DOMAIN handlers[h].log : handlers[h].log[i] = "move"
    /\ \E i \in DOMAIN timers :
         /\ timers[i].tok = handlers[h].cb.tok
         /\ timers[i].kind = "BOUNDARY"
         /\ timers[i].status = "CANCELLED"

\* Token t is about to enter its call activity for the first time.
FirstEntry(t) ==
  /\ tokens[t].state = "ACTIVE"
  /\ IsCallActivity(tokens[t].cur)
  /\ CallActivityKey(tokens[t].cur) \notin tokens[t].ctx

\* Token t is about to execute a call activity whose executed flag is set.
ReEntry(t) ==
  /\ tokens[t].state = "ACTIVE"
  /\ IsCallActivity(tokens[t].cur)
  /\ CallActivityKey(tokens[t].cur) \in tokens[t].ctx

\* What Execute returns for token t when starting the child succeeds.
Executed(t) ==
  CallActivityExecute(tokens[t], Elements[tokens[t].cur],
                      [err |-> FALSE, instanceId |-> Len(instances) + 1])

C7_ResumeAdvancesWithoutChild ==
  /\ [][\A t \in DOMAIN tokens :
          (ReEntry(t) /\ tokens'[t] # tokens[t])
            => /\ instances' = instances
               /\ Len(tokens') = Len(tokens)
               /\ stats'[t].started = stats[t].started
               /\ tokens'[t] =
                    [tokens[t] EXCEPT !.cur =
                       findTargetElementByFlowID(Elements[tokens[t].cur].outgoing[1],
                                                 tokens[t].processKey)]]_vars
  /\ [](\A t \in DOMAIN tokens :
          ReEntry(t)
            => /\ ~Executed(t).startChild
               /\ Executed(t).result.Success
               /\ ~Executed(t).result.Completed
               /\ Executed(t).result.WaitingFor = NoKey
               /\ Executed(t).result.NextElements = Elements[tokens[t].cur].outgoing)
  /\ [][\A h \in Handlers :
          (/\ handlers[h].pc = "run"
           /\ handlers'[h].pc = "ret"
           /\ handlers[h].cb.key.kind = "call_activity"
           /\ tokens'[handlers[h].cb.tok] # tokens[handlers[h].cb.tok])
            => tokens'[handlers[h].cb.tok].vars =
                 MergeVariables(tokens[handlers[h].cb.tok].vars, handlers[h].cb.vars.map)]_vars

\* C7 happens: a token has left its call activity a second time, the second time
\* through the executor, with one child started.
C7_Witness ==
  \E t \in DOMAIN tokens :
    /\ stats[t].arrivals = 2
    /\ stats[t].left = 2
    /\ CallActivityKey("P_Call") \in tokens[t].ctx
    /\ tokens[t].cur = "P_Gw"

\* C8: every traversal of a call activity starts a child: a token has never left
\* a call activity more often than it started a child there.
C8_EachTraversalStartsChild ==
  \A t \in DOMAIN tokens : stats[t].left <= stats[t].started

\* The call activity callback for token t of the Linear process is with a handler.
CallbackDelivered(t) ==
  /\ t \in DOMAIN tokens
  /\ tokens[t].processKey = "Linear"
  /\ \E h \in Handlers :
       /\ handlers[h].pc # "idle"
       /\ handlers[h].cb.tok = t
       /\ handlers[h].cb.key.kind = "call_activity"

\* Token t of the Linear process and its instance are COMPLETED, the call
\* activity left once.
ParentCompleted(t) ==
  /\ t \in DOMAIN tokens
  /\ tokens[t].state = "COMPLETED"
  /\ instances[tokens[t].inst].state = "COMPLETED"
  /\ stats[t].left = 1

\* Token t of the Linear process is at its call activity, not yet suspended.
ParentArrived(t) ==
  /\ t \in DOMAIN tokens
  /\ tokens[t].processKey = "Linear"
  /\ tokens[t].cur = "L_Call"
  /\ tokens[t].state = "ACTIVE"
  /\ stats[t].started = 0

\* Token t waits at the call activity for the child it started.
ParentSuspended(t) ==
  /\ t \in DOMAIN tokens
  /\ tokens[t].cur = "L_Call"
  /\ tokens[t].state = "WAITING"
  /\ tokens[t].waitingFor.kind = "call_activity"
  /\ instances[tokens[t].waitingFor.id].parentTok = t

\* C9: the parent token of Linear (Start -> Call -> End, the child Start -> End)
\* suspends on call_activity:<child>; once the child's callback is delivered the
\* parent eventually completes, having left the call activity exactly once; and
\* it is never past the call activity unless its child instance is COMPLETED.
C9_ParentResumesAfterChild ==
  /\ [](\A t \in DOMAIN tokens :
          tokens[t].processKey = "Linear"
            => /\ stats[t].left <= 1
               /\ stats[t].started <= 1
               /\ tokens[t].cur = "L_End"
                    => /\ stats[t].left = 1
                       /\ \E i \in DOMAIN instances :
                            instances[i].parentTok = t /\ instances[i].state = "COMPLETED")
  /\ \A t \in 1..MaxTokens : ParentArrived(t) ~> ParentSuspended(t)
  /\ \A t \in 1..MaxTokens : CallbackDelivered(t) ~> ParentCompleted(t)

\* C9 happens: the parent completed after its child did.
C9_Witness ==
  \E t \in DOMAIN tokens :
    /\ tokens[t].processKey = "Linear"
    /\ ParentCompleted(t)
    /\ \E i \in DOMAIN instances : instances[i].parentTok = t /\ instances[i].state = "COMPLETED"

\* C10: after a token was resumed with a list of flow ids, every target element
\* one of the flow ids resolves to holds a token of the instance.
C10_EveryFlowTargetGetsToken ==
  \A h \in Handlers :
    (handlers[h].pc = "ret" /\ handlers[h].outcome = "ok" /\ handlers[h].cb.via = "flows")
      => \A i \in DOMAIN handlers[h].cb.flows :
           LET e == findTargetElementByFlowID(handlers[h].cb.flows[i],
                                              tokens[handlers[h].cb.tok].processKey)
           IN e # NoElement
                => \E u \in DOMAIN tokens :
                     tokens[u].inst = handlers[h].cb.inst /\ tokens[u].cur = e

\* C11: when a callback-resume step returns an error after its callback passed
\* validation, the step is not applied: the stored token is still WAITING with
\* the key it waited for, so a redelivery of the callback is accepted.
C11_FailedResumeNotApplied ==
  [][\A h \in Handlers :
       (handlers[h].pc = "run" /\ handlers'[h].pc = "ret" /\ handlers'[h].outcome = "error")
         => /\ tokens'[handlers[h].cb.tok].state = "WAITING"
            /\ tokens'[handlers[h].cb.tok].waitingFor = handlers[h].cb.key
            /\ WaitingForExpected(tokens'[handlers[h].cb.tok], handlers[h].cb.key)]_vars

\* C12: every job callback the background jobs processor receives is forwarded
\* by it, once, to HandleJobCallback with the callback's job id, element id,
\* token id, status, error message and variables, whatever its variables hold.
C12_EveryJobCallbackForwarded ==
  [][(/\ channel # <<>>
      /\ IsCallbackText(Head(channel))
      /\ <<forwarded, ignored>>' # <<forwarded, ignored>>)
       => \E cb \in JobCallbacks :
            /\ Head(channel) = Marshal(cb)
            /\ ignored' = ignored
            /\ forwarded' = Append(forwarded,
                 [job_id |-> cb.job_id, element_id |-> cb.element_id,
                  token_id |-> cb.token_id, status |-> cb.status,
                  error_message |-> cb.error_message, variables |-> cb.variables])]_vars

\* Positions of the timer cancellations among the statements of a handler body.
CancelStages(stages) ==
  {i \in DOMAIN stages : stages[i] \in {"cancelBoundary", "cancelEvent"}}

\* The kinds of timers the handler of the callback cancels of which the
\* callback's token has a pending one.  When the handler leaves them all
\* pending, each of these cancellations has failed.
PendingKinds(cb) ==
  {k \in (IF cb.via = "continue" THEN {"BOUNDARY"} ELSE {"BOUNDARY", "EVENT"}) :
     \E i \in DOMAIN timers :
       timers[i].tok = cb.tok /\ timers[i].status = "PENDING" /\ timers[i].kind = k}

\* What a handler body does to the token, the store and its caller.
Effect(w) == <<w.outcome, w.token, w.tokens, w.stats, w.placed, w.log>>

\* C13: a failed cancellation of the token's boundary or event timers is not
\* fatal to a callback: the handler clears the wait, writes the token and moves
\* it as it does when the cancellation succeeds, with the same outcome; and a
\* handler run in which only the cancellations fail ends without an error, with
\* the token resumed and moved.
C13_CancelFailureNotFatal ==
  /\ [](\A h \in Handlers :
          handlers[h].pc = "run" =>
            /\ \A failing \in SUBSET CancelStages(PCCStages) :
                 Effect(ProcessCallbackAndContinue(handlers[h], failing))
                   = Effect(ProcessCallbackAndContinue(handlers[h], {}))
            /\ \A failing \in SUBSET CancelStages(FlowsStages) :
                 Effect(ProcessCallbackAndContinueWithFlows(handlers[h], failing))
                   = Effect(ProcessCallbackAndContinueWithFlows(handlers[h], {})))
  /\ [][\A h \in Handlers :
          (/\ handlers[h].pc = "run"
           /\ handlers'[h].pc = "ret"
           /\ PendingKinds(handlers[h].cb) # {}
           /\ timers' = timers
           /\ faults' = faults + Cardinality(PendingKinds(handlers[h].cb)))
            => /\ handlers'[h].outcome = "ok"
               /\ tokens'[handlers[h].cb.tok].state = "ACTIVE"
               /\ tokens'[handlers[h].cb.tok].waitingFor = NoKey
               /\ tokens'[handlers[h].cb.tok].cur # handlers[h].loaded.cur]_vars

\* C13 happens: a handler has resumed and moved its token although the
\* cancellation failed: a boundary timer of the token is still pending.
C13_Witness ==
  \E h \in Handlers :
    /\ handlers[h].pc = "ret"
    /\ handlers[h].outcome = "ok"
    /\ faults > 0
    /\ \E i \in DOMAIN handlers[h].log : handlers[h].log[i] = "move"
    /\ tokens[handlers[h].cb.tok].cur # handlers[h].loaded.cur
    /\ \E i \in DOMAIN timers :
         /\ timers[i].tok = handlers[h].cb.tok
         /\ timers[i].kind = "BOUNDARY"
         /\ timers[i].status = "PENDING"

\* The successful starts among the replies.
Started == {k \in DOMAIN replies : replies[k].op = "start" /\ replies[k].err = ""}

\* C14: every successful StartProcessInstance, through the gRPC adapter or the
\* REST adapter, returns the id of an instance it created, and two successful
\* calls return different ids.
C14_StartReturnsFreshInstance ==
  /\ \A k \in Started :
       \E i \in DOMAIN instances :
         /\ replies[k].result.InstanceID = InstanceID(i)
         /\ instances[i].processKey = replies[k].processKey
  /\ \A k, l \in Started : k # l => replies[k].result.InstanceID # replies[l].result.InstanceID

\* C15: a start with a process key that has no definition returns the error
\* PROCESS_NOT_FOUND and no result, through every adapter; no ACTIVE instance is
\* reported for it.
C15_UnknownKeyIsAnError ==
  \A k \in DOMAIN replies :
    (replies[k].op = "start" /\ replies[k].processKey \notin RegisteredKeys)
      => /\ replies[k].err = "PROCESS_NOT_FOUND"
         /\ replies[k].result = NoResult
         /\ replies[k].result.State # "ACTIVE"

\* Instance i is cancelled: the instance and all its tokens are CANCELLED, and
\* none of its timers is pending and none of its jobs activatable.
Cancelled(i) ==
  /\ instances[i].state = "CANCELLED"
  /\ \A t \in DOMAIN tokens : tokens[t].inst = i => tokens[t].state = "CANCELLED"
  /\ \A n \in DOMAIN timers : timers[n].inst = i => timers[n].status # "PENDING"
  /\ \A j \in DOMAIN jobs : jobs[j].inst = i => jobs[j].state # "ACTIVATABLE"

C17_CompletedHasNoLiveToken ==
  \A i \in DOMAIN instances :
    instances[i].state = "COMPLETED" =>
      \A t \in DOMAIN tokens :
        tokens[t].inst = i =>
          /\ tokens[t].state \notin {"ACTIVE", "WAITING"}
          /\ tokens[t].waitingFor.kind # "call_activity"

\* C17 happens: an instance with several tokens has completed after one of its
\* tokens had waited for a called instance, which has completed too.
C17_Witness ==
  \E i \in DOMAIN instances, t, u \in DOMAIN tokens :
    /\ instances[i].state = "COMPLETED"
    /\ t # u
    /\ tokens[t].inst = i /\ tokens[t].state = "COMPLETED"
    /\ tokens[u].inst = i /\ tokens[u].state = "COMPLETED"
    /\ tokens[t].ctx # {}
    /\ \E c \in DOMAIN instances :
         instances[c].parentTok = t /\ instances[c].state = "COMPLETED"

\* The parallel joins of the process definitions.
Joins == {e \in ElementIds : IsJoin(e)}

\* C18: whenever a parallel join with K incoming flows fires, exactly K distinct
\* sibling tokens of one instance at that join are consumed, one of them
\* survives and moves along the outgoing flow, the others become CANCELLED; the
\* join does not fire with fewer tokens, and no token is consumed by two firings.
C18_JoinConsumesKTokens ==
  /\ [][\A join \in Joins :
          LET leaving == {u \in DOMAIN tokens : tokens[u].cur = join /\ tokens'[u].cur # join}
          IN leaving # {} =>
               \E i \in DOMAIN instances :
                 LET at == ParkedAt(join, i) \cup leaving IN
                 /\ \A u \in at : tokens[u].inst = i
                 /\ Cardinality(at) = Len(Elements[join].incoming)
                 /\ Cardinality(leaving) = 1
                 /\ \A u \in leaving :
                      /\ tokens'[u].state = "ACTIVE"
                      /\ Elements[join].outgoing[1] \in SeqToSet(Elements[tokens'[u].cur].incoming)
                 /\ \A u \in at \ leaving : tokens'[u].state = "CANCELLED"
                 /\ \A u \in DOMAIN tokens \ at : tokens'[u] = tokens[u]
                 /\ firings' = Append(firings, [join |-> join, inst |-> i, consumed |-> at,
                                                survivor |-> CHOOSE u \in leaving : TRUE])]_vars
  /\ [](\A f, g \in DOMAIN firings :
          /\ Cardinality(firings[f].consumed) = Len(Elements[firings[f].join].incoming)
          /\ f # g => firings[f].consumed \cap firings[g].consumed = {})

\* C18 happens: the join of Fork has fired on two tokens: the survivor has moved
\* on and its sibling is CANCELLED.
C18_Witness ==
  \E f \in DOMAIN firings :
    /\ Cardinality(firings[f].consumed) = 2
    /\ tokens[firings[f].survivor].cur = "F_EndA"
    /\ \E u \in firings[f].consumed :
         u # firings[f].survivor /\ tokens[u].state = "CANCELLED" /\ tokens[u].cur = "F_Join"

\* The buffered, unconsumed messages for the subscription's (name, key) whose
\* TTL has not elapsed at the time.
LiveFor(sub) ==
  {m \in DOMAIN buffer :
     /\ buffer[m].name = sub.name
     /\ buffer[m].correlationKey = sub.correlationKey
     /\ buffer[m].buffered
     /\ buffer[m].consumedBy = 0
     /\ now < buffer[m].publishedAt + buffer[m].ttlSeconds}

\* A message is consumed by at most one subscription, and a subscription
\* consumes at most one message.
ConsumedAtMostOnce ==
  /\ \A m \in DOMAIN buffer :
       buffer[m].consumedBy # 0 =>
         /\ buffer[m].consumedBy \in DOMAIN subscriptions
         /\ subscriptions[buffer[m].consumedBy].status = "MATCHED"
         /\ subscriptions[buffer[m].consumedBy].message = m
  /\ \A s \in DOMAIN subscriptions :
       subscriptions[s].status = "MATCHED" => buffer[subscriptions[s].message].consumedBy = s

\* A message published while no matching subscription is pending is buffered.
PublishedIsBuffered ==
  [][Len(buffer') = Len(buffer) + 1 =>
       LET msg == buffer'[Len(buffer')] IN
       (\A s \in DOMAIN subscriptions :
          ~(/\ subscriptions[s].name = msg.name
            /\ subscriptions[s].correlationKey = msg.correlationKey
            /\ subscriptions[s].status = "PENDING"))
         => (msg.buffered /\ msg.consumedBy = 0 /\ subscriptions' = subscriptions)]_vars

\* C19 as stated: a message published before any matching subscription is
\* buffered, and every buffered message whose TTL has not elapsed is consumed
\* by the next subscription with its (name, correlationKey); each message is
\* consumed by at most one subscription.
C19_ConsumedByNextSubscription ==
  /\ PublishedIsBuffered
  /\ [][Len(subscriptions') = Len(subscriptions) + 1 =>
          \A m \in LiveFor(subscriptions'[Len(subscriptions')]) :
            buffer'[m].consumedBy = Len(subscriptions')]_vars
  /\ []ConsumedAtMostOnce

\* C19, amended: a message published while no matching subscription is
\* pending is buffered; the next subscription with the same (name,
\* correlationKey) consumes exactly one of the buffered matching messages whose
\* TTL has not elapsed, when there is one, and stays pending otherwise; each
\* message is consumed by at most one subscription.
C19_NextSubscriptionConsumesOne ==
  /\ PublishedIsBuffered
  /\ [][Len(subscriptions') = Len(subscriptions) + 1 =>
          LET s == Len(subscriptions')
              live == LiveFor(subscriptions'[s])
          IN IF live = {}
             THEN subscriptions'[s].status = "PENDING" /\ buffer' = buffer
             ELSE \E m \in live :
                    /\ subscriptions'[s].status = "MATCHED"
                    /\ subscriptions'[s].message = m
                    /\ buffer'[m].consumedBy = s
                    /\ \A o \in DOMAIN buffer \ {m} : buffer'[o] = buffer[o]]_vars
  /\ []ConsumedAtMostOnce

\* C19 happens: of two buffered messages for the same (name, correlationKey)
\* the next subscription has consumed one, within its TTL, and the other is
\* still buffered.
C19_Witness ==
  \E m, o \in DOMAIN buffer :
    /\ m # o
    /\ buffer[m].buffered /\ buffer[o].buffered
    /\ buffer[m].name = buffer[o].name
    /\ buffer[m].correlationKey = buffer[o].correlationKey
    /\ buffer[m].consumedBy # 0
    /\ subscriptions[buffer[m].consumedBy].createdAt > buffer[m].publishedAt
    /\ buffer[o].consumedBy = 0
    /\ buffer[o].publishedAt < subscriptions[buffer[m].consumedBy].createdAt
    /\ buffer[o].publishedAt + buffer[o].ttlSeconds > subscriptions[buffer[m].consumedBy].createdAt

\* C20: an API response that the background jobs processor reads from the
\* response channel is ignored by it and stays on the channel, where the
\* caller waiting in WaitForJobsResponse can still receive it.
C20_ApiResponseStaysAvailable ==
  [][(/\ channel # <<>>
      /\ ~IsCallbackText(Head(channel))
      /\ <<forwarded, ignored>>' # <<forwarded, ignored>>)
       => /\ forwarded' = forwarded
          /\ ignored' = Append(ignored, Head(channel))
          /\ \E k \in DOMAIN channel' : channel'[k] = Head(channel)]_vars

\* The pending EVENT timers of a token among the timers.
PendingEventTimers(tms, tok) ==
  {i \in DOMAIN tms :
     tms[i].tok = tok /\ tms[i].kind = "EVENT" /\ tms[i].status = "PENDING"}

\* A handler resumes the token of a gateway event and moves it.
MovesByFlows(h) ==
  /\ handlers[h].pc = "run"
  /\ handlers'[h].pc = "ret"
  /\ handlers[h].cb.via = "flows"
  /\ tokens'[handlers[h].cb.tok].cur # tokens[handlers[h].cb.tok].cur

\* C22 as stated: when the first event to fire resumes a token waiting at an
\* event-based gateway, the other EVENT timers of the token are cancelled before
\* the token is moved: once it has moved, none of them is pending.
C22_OtherEventTimersCancelled ==
  [][\A h \in Handlers :
       MovesByFlows(h) => PendingEventTimers(timers', handlers[h].cb.tok) = {}]_vars

\* C22, amended: the cancellation of the token's EVENT timers is issued before
\* the token is moved along the fired event's flow; when it succeeds no EVENT
\* timer of the token is pending once the token has moved, and when it fails the
\* failure is passed over and the timers stay pending; in both cases the move
\* takes the token out of its wait, so that the resume of one wait at the gateway
\* is written at most once and no second event advances the token.
C22_EventTimersCancelledBeforeMove ==
  /\ [](\A h \in Handlers :
          \A i \in DOMAIN handlers[h].log :
            handlers[h].log[i] = "moveTo"
              => \E k \in 1..(i - 1) : handlers[h].log[k] = "cancelEvent")
  /\ [][\A h \in Handlers :
          MovesByFlows(h) =>
            /\ tokens[handlers[h].cb.tok].state = "WAITING"
            /\ tokens[handlers[h].cb.tok].waitingFor = handlers[h].cb.key
            /\ tokens'[handlers[h].cb.tok].waitingFor = NoKey
            /\ \/ PendingEventTimers(timers', handlers[h].cb.tok) = {}
               \/ /\ PendingEventTimers(timers', handlers[h].cb.tok)
                       = PendingEventTimers(timers, handlers[h].cb.tok)
                  /\ faults' > faults]_vars
  /\ [](\A r \in waits : r.resumed <= 1)

\* C22 happens: one event of the gateway has fired and its handler has moved the
\* token; the other event's timer is cancelled.
C22_Witness ==
  \E h \in Handlers :
    /\ handlers[h].pc = "ret"
    /\ handlers[h].cb.via = "flows"
    /\ handlers[h].outcome = "ok"
    /\ tokens[handlers[h].cb.tok].cur # handlers[h].loaded.cur
    /\ \E i, k \in DOMAIN timers :
         /\ timers[i].tok = handlers[h].cb.tok /\ timers[i].kind = "EVENT"
         /\ timers[i].status = "FIRED"
         /\ timers[k].tok = handlers[h].cb.tok /\ timers[k].kind = "EVENT"
         /\ timers[k].status = "CANCELLED"

\* A handler has written the token of its callback to the store.
Resumes(h) ==
  /\ handlers[h].pc = "run"
  /\ handlers'[h].pc = "ret"
  /\ tokens'[handlers[h].cb.tok] # tokens[handlers[h].cb.tok]

\* C23: after a valid callback with variables V the resumed token's variables
\* are its previous variables overridden by V: every key of V has V's value,
\* every other key keeps its previous value, and there are no other keys; after
\* a valid callback with no variables (nil) the token's variables are unchanged.
C23_CallbackVariablesOverride ==
  [][\A h \in Handlers :
       Resumes(h) =>
         LET old == tokens[handlers[h].cb.tok].vars
             new == tokens'[handlers[h].cb.tok].vars
             V == handlers[h].cb.vars
         IN IF V.nil
            THEN new = old
            ELSE /\ DOMAIN new = DOMAIN old \cup DOMAIN V.map
                 /\ \A k \in DOMAIN V.map : new[k] = V.map[k]
                 /\ \A k \in DOMAIN old \ DOMAIN V.map : new[k] = old[k]]_vars

\* C23 happens: a callback with variables that override one variable of the
\* token and add another has resumed it; the token's third variable is kept.
C23_Witness ==
  \E h \in Handlers :
    /\ handlers[h].pc = "ret"
    /\ handlers[h].outcome = "ok"
    /\ ~handlers[h].cb.vars.nil
    /\ \E k \in DOMAIN handlers[h].cb.vars.map :
         /\ k \in DOMAIN handlers[h].loaded.vars
         /\ handlers[h].loaded.vars[k] # handlers[h].cb.vars.map[k]
         /\ tokens[handlers[h].cb.tok].vars[k] = handlers[h].cb.vars.map[k]
    /\ \E k \in DOMAIN handlers[h].cb.vars.map : k \notin DOMAIN handlers[h].loaded.vars
    /\ \E k \in DOMAIN handlers[h].loaded.vars :
         /\ k \notin DOMAIN handlers[h].cb.vars.map
         /\ tokens[handlers[h].cb.tok].vars[k] = handlers[h].loaded.vars[k]

\* A handler of ProcessCallbackAndContinue has moved the token of its callback.
MovesOn(h) ==
  /\ handlers[h].pc = "run"
  /\ handlers'[h].pc = "ret"
  /\ handlers[h].cb.via = "continue"
  /\ tokens'[handlers[h].cb.tok].cur # tokens[handlers[h].cb.tok].cur

\* C30: after a valid callback ProcessCallbackAndContinue moves the token on
\* from the element the token is on, along an outgoing flow of that element,
\* whatever element id the callback carries; the callback's element id is the
\* departure element only for a token whose currentElementId is empty.
C30_MovesFromOwnElement ==
  /\ [][\A h \in Handlers :
          MovesOn(h) =>
            /\ tokens[handlers[h].cb.tok].cur \in ElementIds
            /\ \E f \in SeqToSet(Elements[tokens[handlers[h].cb.tok].cur].outgoing) :
                 f \in SeqToSet(Elements[tokens'[handlers[h].cb.tok].cur].incoming)]_vars
  /\ [](\A h \in Handlers :
          handlers[h].pc = "run" =>
            \A e \in CallbackElements \cup {NoElement} :
              /\ handlers[h].loaded.cur # NoElement
              /\ DepartureElement(handlers[h].loaded, e) = handlers[h].loaded.cur
              /\ DepartureElement([handlers[h].loaded EXCEPT !.cur = NoElement], e) = e)

\* C30 happens: a job callback naming the gateway has resumed the token that was
\* on the service task, and the token has moved along the task's outgoing flow.
C30_Witness ==
  \E h \in Handlers :
    /\ handlers[h].pc = "ret"
    /\ handlers[h].outcome = "ok"
    /\ handlers[h].cb.elementId = "O_Gw"
    /\ handlers[h].loaded.cur = "O_Task"
    /\ tokens[handlers[h].cb.tok].cur = "O_Gw"

\* The stored tokens that are about to execute their call activity for the
\* first time.
Entering == {t \in DOMAIN tokens : FirstEntry(t) /\ ~AlreadyExecuted(tokens[t])}

\* The instances a token's call activity has started.
ChildrenOf(t) == {i \in DOMAIN instances : instances[i].parentTok = t}

Count(log, event) == Cardinality({i \in DOMAIN log : log[i] = event})

\* The request was checked against the rate limiter: rate limiting was enabled,
\* the path was not a skip path and the auth component's limiter was in use.
Checked(s) ==
  /\ s.config.Enabled
  /\ ~shouldSkipPath(s.c.path)
  /\ s.config.UseAuthRateLimiter
  /\ s.auth = "ready"

\* C28: a request for which CheckLimit is false is answered 429 and aborted,
\* the downstream handler does not run and the request is not recorded; a
\* request that passes is recorded exactly once, before the downstream handler
\* runs; a request to a skip path, or with rate limiting disabled, is not
\* checked, recorded or rejected; and the limiter has recorded, per client, the
\* requests that passed its check and no others.
C28_RateLimitMiddleware ==
  /\ \A k \in DOMAIN served :
       LET s == served[k]
           log == s.c.log
       IN
       /\ (Checked(s) /\ ~s.allowed)
            => /\ s.c.status = 429
               /\ s.c.aborted
               /\ Count(log, "downstream") = 0
               /\ Count(log, "record") = 0
       /\ (Checked(s) /\ s.allowed)
            => /\ Count(log, "check") = 1
               /\ Count(log, "record") = 1
               /\ Count(log, "downstream") = 1
               /\ \A i, j \in DOMAIN log :
                    (log[i] = "record" /\ log[j] = "downstream") => i < j
               /\ s.c.status = 200
       /\ (~s.config.Enabled \/ shouldSkipPath(s.c.path))
            => /\ Count(log, "check") = 0
               /\ Count(log, "record") = 0
               /\ ~s.c.aborted
               /\ s.c.status = 200
               /\ Count(log, "downstream") = 1
  /\ \A cl \in ClientIds :
       recorded[cl] = Cardinality({k \in DOMAIN served :
                                     /\ served[k].c.client = cl
                                     /\ Checked(served[k])
                                     /\ served[k].allowed})

\* C28 happens: one client's request passed the check and was recorded, and the
\* next was rejected with 429; a request to a skip path was served unchecked.
C28_Witness ==
  \E i, j \in DOMAIN served :
    /\ Checked(served[i]) /\ served[i].allowed /\ served[i].c.status = 200
    /\ recorded[served[i].c.client] = 1
    /\ Checked(served[j]) /\ ~served[j].allowed /\ served[j].c.status = 429
    /\ served[i].c.client = served[j].c.client

\* The response holds one result per test case, in the order of the test cases;
\* AllPassed says that every result passed; the counts of the summary are those
\* of the results.
ResultsMatch(t) ==
  LET n == Len(t.req.TestCases)
      results == t.resp.Results
      passed == Cardinality({i \in DOMAIN results : results[i].Passed})
  IN /\ Len(results) = n
     /\ \A i \in 1..n : results[i].TestName = t.req.TestCases[i].Name
     /\ t.resp.AllPassed <=> \A i \in DOMAIN results : results[i].Passed
     /\ Len(t.resp.Summary) = 7
     /\ t.resp.Summary[2] = n
     /\ t.resp.Summary[4] + t.resp.Summary[6] = n
     /\ t.resp.Summary[4] = passed

\* C29 as stated: for every TestExpression request with n test cases the
\* response holds n results in the order of the test cases, AllPassed is true
\* exactly when every result passed, and the passed and failed counts of the
\* summary add up to n, the passed count being the number of passed results.
C29_ResultsPerTestCase == \A k \in DOMAIN tested : ResultsMatch(tested[k])

\* C29, amended: the above holds for every request that finds the expression
\* component; a request that does not find it is answered with no results,
\* AllPassed false and the error as its summary, whatever its test cases.
C29_ResultsPerTestCaseWithComponent ==
  \A k \in DOMAIN tested :
    IF getExpressionComponent(tested[k].component).err = ""
    THEN ResultsMatch(tested[k])
    ELSE /\ tested[k].resp.Results = <<>>
         /\ ~tested[k].resp.AllPassed
         /\ tested[k].resp.Summary = <<getExpressionComponent(tested[k].component).err>>

\* C29 happens: a request with two test cases was answered with one passed and
\* one failed result.
C29_Witness ==
  \E k \in DOMAIN tested :
    /\ tested[k].component = "component"
    /\ Len(tested[k].req.TestCases) = 2
    /\ tested[k].resp.Results[1].Passed
    /\ ~tested[k].resp.Results[2].Passed
    /\ ~tested[k].resp.AllPassed
    /\ tested[k].resp.Summary[4] = 1

\* Whether the body of a CreateJob request passes the five checks.
PassesCreateChecks(req) ==
  /\ req.Type # ""
  /\ req.ProcessInstanceID # ""
  /\ req.ElementID # ""
  /\ req.Retries >= 0 /\ req.Retries <= 100
  /\ req.TimeoutMs >= 0 /\ req.TimeoutMs <= 86400000

\* Whether a message of request i has reached the jobs component: it is in the
\* inbox, or the component has created a job for it or answered it.
Reached(i) ==
  \/ \E k \in DOMAIN inbox : inbox[k].from = i
  \/ \E k \in DOMAIN store : store[k].by = i
  \/ \E k \in DOMAIN outbox : outbox[k].for = i
  \/ \E k \in DOMAIN http : http[k].got = i

\* C27: a CreateJob request that lacks type, process_instance_id or element_id,
\* or whose retries is outside 0..100 or timeout_ms outside 0..86400000, is
\* answered with a validation error (400) that names the failing fields, and
\* no message of it reaches the jobs component and no job is created for it;
\* every request that reaches the component passes the five checks.
C27_InvalidCreateJobRejected ==
  \A i \in DOMAIN http :
    http[i].op = "create" =>
      /\ ~PassesCreateChecks(http[i].req) =>
           /\ http[i].pc = "done"
           /\ http[i].status = 400
           /\ http[i].body.errors # <<>>
           /\ ~Reached(i)
      /\ Reached(i) => PassesCreateChecks(http[i].req)

\* C27 happens: a request with retries out of range was rejected, and a
\* well-formed request has had its job created.
C27_Witness ==
  \E i, j \in DOMAIN http :
    /\ http[i].op = "create" /\ http[i].req.Retries = 101 /\ http[i].req.Type = "pay"
    /\ http[i].status = 400 /\ http[i].body.errors = <<"retries">>
    /\ http[j].op = "create" /\ PassesCreateChecks(http[j].req)
    /\ \E k \in DOMAIN store : store[k].by = j

\* C21: once ActivateJobs has answered a request with success, the jobs of its
\* answer are exactly the jobs the component moved to ACTIVATED for that
\* request; no job is assigned to the worker without being in the answer.
C21_ActivatedJobsReturned ==
  \A i \in DOMAIN http :
    (http[i].op = "activate" /\ http[i].pc = "done" /\ http[i].status = 200 /\ http[i].got = i) =>
      http[i].body.Jobs = {k \in DOMAIN store : store[k].activation = i}

\* C24: sendJobsRequest returns to a handler only the response the component
\* produced for that handler's own request.
C24_OwnResponseReturned ==
  \A i \in DOMAIN http : http[i].got # 0 => http[i].got = i

\* C26: when CompleteJob answers a request whose key names a job of the
\* component, that job is COMPLETED by then.
C26_CompleteJobCompletes ==
  [][\A i \in DOMAIN http' :
       (/\ http'[i].op = "complete"
        /\ http'[i].pc = "done"
        /\ (i \in DOMAIN http => http[i].pc # "done")
        /\ http'[i].req.Key \in DOMAIN store) =>
         store'[http'[i].req.Key].state = "COMPLETED"]_vars

====
